---- MODULE Spec2Model ----
(***************************************************************************)
(* Model of the MQTT client used by the oidbs importer:                    *)
(*   src/src/mqtt_client/client.rs  Network (frame transport), Client      *)
(*   src/src/import.rs              Importer::import_csv_to_ib (workers)   *)
(* The frame codec is the mqttbytes crate (v4); its read/write functions   *)
(* are modelled at byte level next to the places that call them.           *)
(*                                                                         *)
(* Three specifications:                                                   *)
(*   Spec        one Client driven through its public methods in any order *)
(*               (handshake, publish_bytes, Network::write)                *)
(*   SpecRead    Network::read called again and again on one byte stream   *)
(*   SpecImport  the importer: a coordinator that spawns one worker thread *)
(*               per input file inside thread::scope                       *)
(***************************************************************************)
EXTENDS Integers, Sequences, FiniteSets, TLC

VARIABLES
    pc,          \* per worker: position of the thread / of the call in progress
    caller,      \* per worker: who called Network::read ("api" or "handshake")
    inbound,     \* per worker: bytes the peer sends that the socket has not delivered yet
    peerCloses,  \* per worker: whether the peer closes once inbound is exhausted
    readBuf,     \* per worker: Network.read (BytesMut)
    required,    \* per worker: read_bytes' parameter
    total_read,  \* per worker: read_bytes' local
    sent,        \* per worker: bytes the socket accepted, in order (what the peer observes)
    readResult,  \* per worker: value returned by Network::read in the call in progress or
                 \*   just finished (NoResult until it returns)
    hsResult,    \* per worker: value returned by the last Client::handshake
    lastWrite,   \* per worker: record of the last Network::write call
    lastPublish, \* per worker: record of the last Client::publish_bytes call
    calls,       \* per worker: number of method calls made on the client
    received,    \* per worker (history): every byte the socket delivered, in order
    consumedOk,  \* per worker (history): number of bytes removed by decodes that returned a packet
    consumedErr, \* per worker (history): number of bytes removed by decodes that returned an error
    sockReads,   \* per worker (history): socket reads of the call since its last decode attempt,
                 \*   each [req: size requested, got: bytes delivered, 0 at end of stream,
                 \*   -1 for an I/O error]
    readsInCall, \* per worker (history): socket reads that delivered data since Network::read
                 \*   was entered
    decodes,     \* per worker (history): packets returned by Network::read, in order
    file,        \* per worker: the lines of its input file
    nextLine,    \* per worker: index of the first line not yet put into a batch
    published,   \* per worker: payloads handed to publish_bytes, in order
    logged,      \* per worker: number of "publish failed" log lines
    cpc,         \* coordinator (import_csv_to_ib): position
    options,     \* MqttOptions built by the coordinator
    shortBy,     \* environment: the most bytes by which a socket.write may fall short of
                 \*   the buffer it is given (any smaller shortfall can happen too)
    batch,       \* num_rows_in_batch as usize
    attempts,    \* per worker (history): [new: calls of Client::new,
                 \*   handshake: calls of Client::handshake]
    hsNet,       \* per worker (history): the Network methods called by the handshake in
                 \*   progress or last finished, in order
    newResult,   \* per worker: how the worker's call of Client::new ended ("None" before)
    optCall,     \* record of the last call that built or changed the MqttOptions
    gen,         \* the Generator's fields read by gen_data: [interval, step, out_of_order,
                 \*   per_ts: lines gen_csv_records returns for one timestamp]
    gcpc,        \* coordinator (Generator::run): position
    gpc,         \* per generator worker (gen_data): position
    tsp,         \* per generator worker: timestamps of the loop at line 97 handled so far
    generated,   \* per generator worker (history): lines gen_csv_records has returned
    num_all_lines, \* per generator worker: gen_data's local count
    ooo_buf,     \* per generator worker: lines held back for the next flush
    ooo_ct,      \* per generator worker: timestamps left before the next flush
    gen_file,    \* per generator worker: what was written to its output file, a line
                 \*   being its number (1, 2, ...) and the newline byte being 0
    dropped,     \* per generator worker (history): writes whose error was discarded
    gen_stats,   \* the shared HashMap, its entry for the model (NoStat when absent)
    mutex,       \* the Mutex around gen_stats: the worker holding it, 0 when free
    entry,       \* per generator worker: the entry as found when the lock was taken
    printed,     \* the total Generator::run printed (NoStat when it printed none)
    callIn,      \* model.rs helpers: the arguments of the call
    callOut      \* model.rs helpers: what the call returned (NoCall before it)

\* the variables of the MQTT client and of the importer
clientVars ==
    << pc, caller, inbound, peerCloses, readBuf, required, total_read, sent,
       readResult, hsResult, lastWrite, lastPublish, calls, received,
       consumedOk, consumedErr, sockReads, readsInCall, decodes, file, nextLine,
       published, logged, cpc, options, shortBy, batch, attempts, hsNet,
       newResult, optCall >>

\* the variables of the generator
genVars ==
    << gen, gcpc, gpc, tsp, generated, num_all_lines, ooo_buf, ooo_ct, gen_file, dropped,
       gen_stats, mutex, entry, printed >>

\* the variables of the helpers of model.rs
helperVars == << callIn, callOut >>

vars == << clientVars, genVars, helperVars >>

(***************************************************************************)
(* Bounds of the model.                                                    *)
(***************************************************************************)
\* number of frames / fragments the peer's byte stream is built from
MaxUnits == 2
\* number of method calls the harness makes on one client
MaxCalls == 2
\* number of lines in one input file
MaxLines == 2
\* in SpecImport, how many bytes short of the buffer one socket.write may fall
MaxShort == 1

\* the worker threads of the importer, one per input file
Workers == { 1, 2 }
\* the harness drives one client
Api == CHOOSE w \in Workers : \A v \in Workers : w <= v

(***************************************************************************)
(* Sequence helpers.                                                       *)
(***************************************************************************)
Take(s, n) == SubSeq(s, 1, n)
Drop(s, n) == SubSeq(s, n + 1, Len(s))
Min(a, b) == IF a < b THEN a ELSE b

(***************************************************************************)
(* mqttbytes v4: decoding (called at client.rs:61).                        *)
(***************************************************************************)
NoPacket == [type |-> "None"]
NoError == [variant |-> "None"]

\* mqttbytes::ConnectReturnCode, by wire value (connect_return)
ReturnCodeName(n) ==
    CASE n = 0 -> "Success"
      [] n = 1 -> "RefusedProtocolVersion"
      [] n = 2 -> "BadClientId"
      [] n = 3 -> "ServiceUnavailable"
      [] n = 4 -> "BadUserNamePassword"
      [] n = 5 -> "NotAuthorized"
      [] OTHER -> "Invalid"

\* mqttbytes length(): the variable-length "remaining length" that starts at s[i]
RECURSIVE LengthFrom(_, _, _, _)
LengthFrom(s, i, shift, len) ==
    IF i > Len(s) THEN [st |-> "insufficient", len_len |-> 0, len |-> 0]
    ELSE LET byte == s[i]
             newlen == len + (byte % 128) * (2 ^ shift)
         IN IF byte < 128 THEN [st |-> "ok", len_len |-> i - 1, len |-> newlen]
            ELSE IF shift + 7 > 21 THEN [st |-> "malformed", len_len |-> 0, len |-> 0]
            ELSE LengthFrom(s, i + 1, shift + 7, newlen)

\* mqttbytes check(): the fixed header of the frame at the front of s, or what is missing
Check(s, max) ==
    IF Len(s) < 2 THEN [st |-> "insufficient", n |-> 2 - Len(s)]
    ELSE LET l == LengthFrom(s, 2, 0, 0)
         IN CASE l.st = "insufficient" -> [st |-> "insufficient", n |-> 1]
              [] l.st = "malformed" -> [st |-> "error", e |-> "MalformedRemainingLength"]
              [] OTHER ->
                   IF l.len > max
                   THEN [st |-> "error", e |-> "PayloadSizeLimitExceeded"]
                   ELSE IF Len(s) < 1 + l.len_len + l.len
                   THEN [st |-> "insufficient", n |-> (1 + l.len_len + l.len) - Len(s)]
                   ELSE [st |-> "ok", byte1 |-> s[1], fixed_header_len |-> 1 + l.len_len,
                         remaining_len |-> l.len]

\* mqttbytes ConnAck::read on the bytes of one frame
ConnAckRead(h, frame) ==
    LET body == Drop(frame, h.fixed_header_len)
    IN IF Len(body) < 2 THEN [ok |-> FALSE, e |-> "MalformedPacket", packet |-> NoPacket]
       ELSE IF body[2] > 5
       THEN [ok |-> FALSE, e |-> "InvalidConnectReturnCode", packet |-> NoPacket]
       ELSE [ok |-> TRUE, e |-> "",
             packet |-> [type |-> "ConnAck",
                         session_present |-> (body[1] % 2 = 1),
                         code |-> ReturnCodeName(body[2])]]

\* the packet types the peer's byte alphabet can spell (first byte 0x00, 0x20, 0xD0)
ParseFrame(h, frame) ==
    LET ptype == h.byte1 \div 16
    IN CASE ptype = 0 \/ ptype = 15 ->
              [ok |-> FALSE, e |-> "InvalidPacketType", packet |-> NoPacket]
         [] ptype = 13 -> [ok |-> TRUE, e |-> "", packet |-> [type |-> "PingResp"]]
         [] ptype = 2 ->
              IF h.remaining_len = 0
              THEN [ok |-> FALSE, e |-> "PayloadRequired", packet |-> NoPacket]
              ELSE ConnAckRead(h, frame)

\* V4Read with the frame left in the buffer when its type or body is rejected
V4ReadKeepsRejected(s, max) ==
    LET h == Check(s, max)
    IN CASE h.st = "insufficient" ->
              [st |-> "insufficient", n |-> h.n, e |-> "", packet |-> NoPacket, rest |-> s]
         [] h.st = "error" ->
              [st |-> "error", n |-> 0, e |-> h.e, packet |-> NoPacket, rest |-> s]
         [] OTHER ->
              LET flen == h.fixed_header_len + h.remaining_len
                  p == ParseFrame(h, Take(s, flen))
              IN [st |-> IF p.ok THEN "ok" ELSE "error", n |-> 0, e |-> p.e,
                  packet |-> p.packet, rest |-> IF p.ok THEN Drop(s, flen) ELSE s]

\* mqttbytes v4::read(stream, max_size): the frame is split off the buffer as soon as
\* check() finds it complete, before its type and body are parsed
V4Read(s, max) ==
    LET h == Check(s, max)
    IN CASE h.st = "insufficient" ->
              [st |-> "insufficient", n |-> h.n, e |-> "", packet |-> NoPacket, rest |-> s]
         [] h.st = "error" ->
              [st |-> "error", n |-> 0, e |-> h.e, packet |-> NoPacket, rest |-> s]
         [] OTHER ->
              LET flen == h.fixed_header_len + h.remaining_len
                  p == ParseFrame(h, Take(s, flen))
              IN [st |-> IF p.ok THEN "ok" ELSE "error", n |-> 0, e |-> p.e,
                  packet |-> p.packet, rest |-> Drop(s, flen)]

(***************************************************************************)
(* mqttbytes v4: encoding (called at client.rs:75 and client.rs:169).      *)
(***************************************************************************)
\* write_remaining_length: the variable-length encoding of a length
RECURSIVE RemLenBytes(_)
RemLenBytes(x) ==
    IF x < 128 THEN << x >> ELSE << (x % 128) + 128 >> \o RemLenBytes(x \div 128)

\* write_mqtt_string: a two-byte big-endian length, then the bytes
MqttString(str) == << (Len(str) \div 256) % 256, Len(str) % 256 >> \o str

\* Login::write, and the connect flags it contributes
LoginBytes(cred) ==
    IF cred = << >> THEN << >>
    ELSE (IF cred[1] # << >> THEN MqttString(cred[1]) ELSE << >>)
         \o (IF cred[2] # << >> THEN MqttString(cred[2]) ELSE << >>)
LoginFlags(cred) ==
    IF cred = << >> THEN 0
    ELSE (IF cred[1] # << >> THEN 128 ELSE 0) + (IF cred[2] # << >> THEN 64 ELSE 0)

\* Connect::write (no last will): protocol name "MQTT", level 4, flags, keep alive, client id, login
EncodeConnect(c) ==
    LET body == MqttString(<< 77, 81, 84, 84 >>) \o << 4 >>
                \o << (IF c.clean_session THEN 2 ELSE 0) + LoginFlags(c.login) >>
                \o << c.keep_alive \div 256, c.keep_alive % 256 >>
                \o MqttString(c.client_id) \o LoginBytes(c.login)
    IN << 16 >> \o RemLenBytes(Len(body)) \o body

\* EncodePublish with nothing encoded for an empty payload
EncodePublishSkipsEmpty(topic, qos, payload) ==
    LET len == 2 + Len(topic) + Len(payload) + (IF qos # 0 THEN 2 ELSE 0)
    IN IF len > (2 ^ 28) - 1 THEN [ok |-> FALSE, e |-> "PayloadTooLong", bytes |-> << >>]
       ELSE IF qos # 0 THEN [ok |-> FALSE, e |-> "PacketIdZero", bytes |-> << >>]
       ELSE IF payload = << >> THEN [ok |-> TRUE, e |-> "", bytes |-> << >>]
       ELSE [ok |-> TRUE, e |-> "",
             bytes |-> << 48 + 2 * qos >> \o RemLenBytes(len) \o MqttString(topic) \o payload]

\* Publish::from_bytes followed by Publish::write: the frame, or the codec's error.
\* from_bytes sets pkid = 0, which write rejects for every quality level above AtMostOnce.
EncodePublish(topic, qos, payload) ==
    LET len == 2 + Len(topic) + Len(payload) + (IF qos # 0 THEN 2 ELSE 0)
    IN IF len > (2 ^ 28) - 1 THEN [ok |-> FALSE, e |-> "PayloadTooLong", bytes |-> << >>]
       ELSE IF qos # 0 THEN [ok |-> FALSE, e |-> "PacketIdZero", bytes |-> << >>]
       ELSE [ok |-> TRUE, e |-> "",
             bytes |-> << 48 + 2 * qos >> \o RemLenBytes(len) \o MqttString(topic) \o payload]

(***************************************************************************)
(* Values returned by the methods.                                         *)
(***************************************************************************)
NoResult == [ok |-> FALSE, packet |-> NoPacket, err |-> NoError]
OkPacket(p) == [ok |-> TRUE, packet |-> p, err |-> NoError]
\* Error::Io(io::Error::new(kind, text))
IoErr(kind, text) ==
    [ok |-> FALSE, packet |-> NoPacket,
     err |-> [variant |-> "Io", kind |-> kind, text |-> text]]

\* SockFaultKinds for a stream with a read timeout set, whose reads can time out
SockFaultKindsWithTimeout == { "ConnectionReset", "Interrupted", "TimedOut" }

\* what the socket can report besides data and end of stream; Client::new (lines 112-114)
\* sets no read or write timeout on the stream, so no read ends with TimedOut or
\* WouldBlock
SockFaultKinds == { "ConnectionReset", "Interrupted" }

(***************************************************************************)
(* client.rs: Network.                                                     *)
(***************************************************************************)
\* const MAX_PACKET_SIZE, the max_incoming_size Client::new gives to Network::new
MAX_PACKET_SIZE == 1024 * 1024

\* ZeroReadError with the two kinds exchanged
ZeroReadErrorSwapped(buf) ==
    IF buf = << >>
    THEN IoErr("ConnectionReset", << "connection reset by peer" >>)
    ELSE IoErr("ConnectionAborted", << "connection closed by peer" >>)

\* ZeroReadError without the look at the read buffer
ZeroReadErrorAlwaysAborted(buf) ==
    IoErr("ConnectionAborted", << "connection closed by peer" >>)

\* read_bytes, lines 37-48: the error for a socket read of zero bytes
ZeroReadError(buf) ==
    IF buf = << >>
    THEN IoErr("ConnectionAborted", << "connection closed by peer" >>)
    ELSE IoErr("ConnectionReset", << "connection reset by peer" >>)

\* ReadRequest with only the bytes still missing asked for
ReadRequestRemaining(req, total) == req - total

\* read_bytes, line 35: the size of the buffer offered to socket.read
ReadRequest(req, total) == req

\* Appended with the whole vec![0; required] appended instead of &buf[..read]
AppendedWholeVec(buf, data, req) == buf \o data \o [i \in 1..(req - Len(data)) |-> 0]

\* Appended with the read buffer overwritten by what arrived
AppendedReplace(buf, data, req) == data

\* read_bytes, lines 35 and 50: self.read.extend_from_slice(&buf[..read]), where buf is
\* vec![0; required] and data are the bytes the socket put into it
Appended(buf, data, req) == buf \o data

\* ReadBytesDone returning after the first socket read
ReadBytesDoneAfterOne(req, total) == TRUE

\* read_bytes, line 53: whether read_bytes returns to the decode loop
ReadBytesDone(req, total) == total >= req

\* where Network::read returns to
ReadReturnPc(w) == IF caller[w] = "handshake" THEN "hs_match" ELSE "idle"

\* AfterCodecError with the decode attempted again instead of the return
AfterCodecErrorRetry(ret) == "decode"

\* Network::read, lines 64-66: any codec error but InsufficientBytes is returned from
\* inside the loop; ret is where the call returns to
AfterCodecError(ret) == ret

\* Network::read, lines 60-67: one decode attempt on the read buffer
Decode(w) ==
    /\ pc[w] = "decode"
    /\ LET r == V4Read(readBuf[w], MAX_PACKET_SIZE)
       IN /\ readBuf' = [readBuf EXCEPT ![w] = r.rest]
          /\ sockReads' = [sockReads EXCEPT ![w] = << >>]
          /\ CASE r.st = "ok" ->
                    /\ readResult' = [readResult EXCEPT ![w] = OkPacket(r.packet)]
                    /\ pc' = [pc EXCEPT ![w] = ReadReturnPc(w)]
                    /\ consumedOk' = [consumedOk EXCEPT
                                        ![w] = @ + (Len(readBuf[w]) - Len(r.rest))]
                    /\ decodes' = [decodes EXCEPT ![w] = Append(@, r.packet)]
                    /\ UNCHANGED << required, total_read, consumedErr >>
               [] r.st = "insufficient" ->
                    /\ required' = [required EXCEPT ![w] = r.n]
                    /\ total_read' = [total_read EXCEPT ![w] = 0]
                    /\ pc' = [pc EXCEPT ![w] = "read_bytes"]
                    /\ UNCHANGED << readResult, consumedOk, consumedErr, decodes >>
               [] OTHER ->
                    /\ readResult' = [readResult EXCEPT
                                        ![w] = IoErr("InvalidData", << "codec", r.e >>)]
                    /\ pc' = [pc EXCEPT ![w] = AfterCodecError(ReadReturnPc(w))]
                    /\ consumedErr' = [consumedErr EXCEPT
                                         ![w] = @ + (Len(readBuf[w]) - Len(r.rest))]
                    /\ UNCHANGED << required, total_read, consumedOk, decodes >>
    /\ UNCHANGED << caller, inbound, peerCloses, sent, hsResult, lastWrite, lastPublish,
                    calls, received, readsInCall, file, nextLine, published, logged, cpc,
                    options, shortBy, batch, attempts, hsNet,
                    newResult, optCall,
                    genVars, helperVars >>

\* read_bytes, lines 35-36 and 50-55: socket.read delivers k >= 1 bytes
SockReadData(w) ==
    /\ pc[w] = "read_bytes"
    /\ \E k \in 1..Min(ReadRequest(required[w], total_read[w]), Len(inbound[w])) :
          /\ readBuf' = [readBuf EXCEPT ![w] = Appended(@, Take(inbound[w], k),
                                                     ReadRequest(required[w], total_read[w]))]
          /\ received' = [received EXCEPT ![w] = @ \o Take(inbound[w], k)]
          /\ inbound' = [inbound EXCEPT ![w] = Drop(@, k)]
          /\ total_read' = [total_read EXCEPT ![w] = @ + k]
          /\ readsInCall' = [readsInCall EXCEPT ![w] = @ + 1]
          /\ sockReads' = [sockReads EXCEPT
                             ![w] = Append(@, [req |-> ReadRequest(required[w], total_read[w]),
                                               got |-> k])]
          /\ pc' = [pc EXCEPT ![w] = IF ReadBytesDone(required[w], total_read[w] + k)
                                    THEN "decode" ELSE "read_bytes"]
    /\ UNCHANGED << caller, peerCloses, required, sent, readResult, hsResult, lastWrite,
                    lastPublish, calls, consumedOk, consumedErr, decodes, file, nextLine,
                    published, logged, cpc, options, shortBy, batch, attempts, hsNet,
                    newResult, optCall,
                    genVars, helperVars >>

\* read_bytes, lines 36-49: socket.read returns 0, the peer has closed
SockReadEof(w) ==
    /\ pc[w] = "read_bytes"
    /\ inbound[w] = << >>
    /\ peerCloses[w]
    /\ readResult' = [readResult EXCEPT ![w] = ZeroReadError(readBuf[w])]
    /\ sockReads' = [sockReads EXCEPT
                       ![w] = Append(@, [req |-> ReadRequest(required[w], total_read[w]),
                                         got |-> 0])]
    /\ pc' = [pc EXCEPT ![w] = ReadReturnPc(w)]
    /\ UNCHANGED << caller, inbound, peerCloses, readBuf, required, total_read, sent,
                    hsResult, lastWrite, lastPublish, calls, received, consumedOk,
                    consumedErr, readsInCall, decodes, file, nextLine, published, logged, cpc,
                    options, shortBy, batch, attempts, hsNet,
                    newResult, optCall,
                    genVars, helperVars >>

\* read_bytes, line 36: socket.read fails and `?` returns the error
SockReadFault(w) ==
    /\ pc[w] = "read_bytes"
    /\ \E kind \in SockFaultKinds :
          readResult' = [readResult EXCEPT ![w] = IoErr(kind, << "os" >>)]
    /\ sockReads' = [sockReads EXCEPT
                       ![w] = Append(@, [req |-> ReadRequest(required[w], total_read[w]),
                                         got |-> -1])]
    /\ pc' = [pc EXCEPT ![w] = ReadReturnPc(w)]
    /\ UNCHANGED << caller, inbound, peerCloses, readBuf, required, total_read, sent,
                    hsResult, lastWrite, lastPublish, calls, received, consumedOk,
                    consumedErr, readsInCall, decodes, file, nextLine, published, logged, cpc,
                    options, shortBy, batch, attempts, hsNet,
                    newResult, optCall,
                    genVars, helperVars >>

\* the outcomes of socket.write(buf) for a non-empty buf: the number of bytes accepted
SocketWriteAccepts(buf) == { n \in 1..Len(buf) : Len(buf) - n <= shortBy }

\* NetworkWrite without the early return for an empty buffer: socket.write is called
\* with no bytes, takes none, and can fail like any write
NetworkWriteNoEmptyCheck(buf) ==
    { [ret |-> "Ok", kind |-> "", wrote |-> TRUE, accepted |-> n, scratch |-> << >>] :
        n \in IF buf = << >> THEN { 0 } ELSE SocketWriteAccepts(buf) }
    \cup { [ret |-> "Err", kind |-> k, wrote |-> TRUE, accepted |-> 0, scratch |-> buf] :
             k \in SockFaultKinds }

\* Network::write(write), lines 85-93: every way the call can end
\*   accepted: bytes the stream took; scratch: the caller's buffer afterwards
NetworkWrite(buf) ==
    IF buf = << >>
    THEN { [ret |-> "Ok", kind |-> "", wrote |-> FALSE, accepted |-> 0, scratch |-> buf] }
    ELSE { [ret |-> "Ok", kind |-> "", wrote |-> TRUE, accepted |-> n, scratch |-> << >>] :
             n \in SocketWriteAccepts(buf) }
         \cup { [ret |-> "Err", kind |-> k, wrote |-> TRUE, accepted |-> 0, scratch |-> buf] :
                  k \in SockFaultKinds }

\* Network::connect, lines 73-83: write_all either delivers the whole frame or fails
\* after delivering a proper prefix of it (the model takes the shortest and the longest
\* proper prefix: nothing, and all but the last byte)
NetworkConnect(frame) ==
    { [ret |-> "Ok", kind |-> "", accepted |-> Len(frame)] }
    \cup { [ret |-> "Err", kind |-> k, accepted |-> n] :
             k \in SockFaultKinds, n \in { 0, Len(frame) - 1 } }

(***************************************************************************)
(* mod.rs: MqttOptions. Strings are sequences of character codes; a        *)
(* Duration is a number of milliseconds. The fields the client never reads *)
(* (transport, outgoing size, channel capacity, batch, throttle, inflight, *)
(* last will, which nothing here sets) are left out.                       *)
(***************************************************************************)
\* the value of `options` before any MqttOptions has been built
NoOptions == [none |-> TRUE]
\* the value of `optCall` before any call
NoUrl == [scheme |-> "", host |-> "", user |-> << >>, query |-> << >>]
NoOptCall ==
    [op |-> "none", ret |-> "", key |-> "", id |-> << >>, d |-> 0, size |-> 0, url |-> NoUrl]

\* the test of MqttOptions::new, line 118
InvalidClientId(id) == id = << >> \/ id[1] = 32

\* MqttOptions::new, lines 116-139: [ret |-> "Ok" or "Panic", options]
MqttOptionsNew(id, host) ==
    IF InvalidClientId(id) THEN [ret |-> "Panic", options |-> NoOptions]
    ELSE [ret |-> "Ok",
          options |-> [broker_addr |-> host,
                       client_id |-> id,
                       keep_alive |-> 60 * 1000,
                       clean_session |-> TRUE,
                       credentials |-> << >>,
                       max_incoming_packet_size |-> 10 * 1024,
                       max_outgoing_packet_size |-> 10 * 1024,
                       conn_timeout |-> 5]]

\* set_credentials, lines 220-223
SetCredentials(o, username, password) ==
    [o EXCEPT !.credentials = << username, password >>]

\* Duration::as_secs
AsSecs(d) == d \div 1000

\* SetKeepAlive without the test of the duration
SetKeepAliveUnchecked(o, d) == [ret |-> "Ok", options |-> [o EXCEPT !.keep_alive = d]]

\* set_keep_alive, lines 166-173: panics when the duration is under five whole seconds
SetKeepAlive(o, d) ==
    IF AsSecs(d) < 5 THEN [ret |-> "Panic", options |-> o]
    ELSE [ret |-> "Ok", options |-> [o EXCEPT !.keep_alive = d]]

\* set_max_packet_size, lines 192-196: both limits are stored as given
SetMaxPacketSize(o, incoming, outgoing) ==
    [ret |-> "Ok", options |-> [o EXCEPT !.max_incoming_packet_size = incoming,
                                         !.max_outgoing_packet_size = outgoing]]

\* set_client_id, lines 186-189: the identifier is stored as given
SetClientId(o, id) == [ret |-> "Ok", options |-> [o EXCEPT !.client_id = id]]

\* str::parse::<u64> (and usize) on the characters of v: an optional '+', then one or
\* more decimal digits; the values of the model stay far below the type's maximum
RECURSIVE DigitsValue(_, _)
DigitsValue(v, acc) ==
    IF v = << >> THEN acc ELSE DigitsValue(Tail(v), acc * 10 + (v[1] - 48))
ParseUnsigned(v) ==
    LET digits == IF v # << >> /\ v[1] = 43 THEN Tail(v) ELSE v
    IN IF digits = << >> \/ \E i \in 1..Len(digits) : digits[i] < 48 \/ digits[i] > 57
       THEN [ok |-> FALSE, n |-> 0]
       ELSE [ok |-> TRUE, n |-> DigitsValue(digits, 0)]

\* str::parse::<bool>: exactly "true" or "false"
ParseBool(v) ==
    IF v = << 116, 114, 117, 101 >> THEN [ok |-> TRUE, b |-> TRUE]
    ELSE IF v = << 102, 97, 108, 115, 101 >> THEN [ok |-> TRUE, b |-> FALSE]
    ELSE [ok |-> FALSE, b |-> FALSE]

\* the query keys try_from takes out of the map with remove (of those the model's URLs
\* use), and the one it only looks up with get (line 339)
RemovedKeys ==
    { "client_id", "clean_session", "max_incoming_packet_size_bytes", "conn_timeout_secs" }
LookedUpKeys == { "keep_alive_secs" }

\* TryFrom<url::Url> for MqttOptions, lines 322-437, on a URL [scheme, host, user,
\* query], query being the map collected from the query pairs: every way it can end.
\* The key reported by OptionError::Unknown is the first the HashMap iterates, any of
\* those still in the map.
TryFromUrl(url) ==
    LET q == url.query
        has(k) == k \in DOMAIN q
        ka == IF has("keep_alive_secs") THEN ParseUnsigned(q["keep_alive_secs"])
              ELSE [ok |-> TRUE, n |-> 60]
        cs == IF has("clean_session") THEN ParseBool(q["clean_session"])
              ELSE [ok |-> TRUE, b |-> TRUE]
        mi == IF has("max_incoming_packet_size_bytes")
              THEN ParseUnsigned(q["max_incoming_packet_size_bytes"])
              ELSE [ok |-> TRUE, n |-> 10 * 1024]
        ct == IF has("conn_timeout_secs") THEN ParseUnsigned(q["conn_timeout_secs"])
              ELSE [ok |-> TRUE, n |-> 5]
        left == DOMAIN q \ RemovedKeys
        err(e) == { [ret |-> e, key |-> "", options |-> NoOptions] }
    IN IF url.scheme \notin { "mqtts", "ssl", "mqtt", "tcp" } THEN err("Scheme")
       ELSE IF ~ka.ok THEN err("KeepAlive")
       ELSE IF ~cs.ok THEN err("CleanSession")
       ELSE IF ~mi.ok THEN err("MaxIncomingPacketSize")
       ELSE IF ~ct.ok THEN err("ConnTimeout")
       ELSE IF left # { }
       THEN { [ret |-> "Unknown", key |-> k, options |-> NoOptions] : k \in left }
       ELSE { [ret |-> "Ok", key |-> "",
               options |-> [broker_addr |-> url.host,
                            client_id |-> IF has("client_id") THEN q["client_id"] ELSE << >>,
                            keep_alive |-> ka.n * 1000,
                            clean_session |-> cs.b,
                            credentials |-> IF url.user = << >> THEN << >>
                                            ELSE << url.user, << >> >>,
                            max_incoming_packet_size |-> mi.n,
                            max_outgoing_packet_size |-> 10 * 1024,
                            conn_timeout |-> ct.n]] }

\* import.rs:179-187: MqttOptions::new("oidbs", host, port), then set_credentials
ImportOptions(addr) ==
    SetCredentials(MqttOptionsNew(<< 111, 105, 100, 98, 115 >>, addr).options,
                   << 117 >>, << 112 >>)

(***************************************************************************)
(* client.rs: Client.                                                      *)
(***************************************************************************)
\* handshake, lines 120-132: the Connect packet built from the options
ConnectOf(o) ==
    [client_id |-> o.client_id,
     keep_alive |-> AsSecs(o.keep_alive) % 65536,
     clean_session |-> o.clean_session,
     login |-> o.credentials]

\* HandshakeMatch with the accepted ConnAck rebuilt from its return code alone
HandshakeMatchRebuilt(r) ==
    IF ~r.ok THEN r
    ELSE IF r.packet.type = "ConnAck" /\ r.packet.code = "Success"
    THEN OkPacket([type |-> "ConnAck", session_present |-> FALSE, code |-> "Success"])
    ELSE IF r.packet.type = "ConnAck"
    THEN IoErr("InvalidData", << "Broker rejected. Reason = ", r.packet.code >>)
    ELSE IoErr("InvalidData", << "Expecting connack. Received = ", r.packet.type >>)

\* HandshakeMatch with every ConnAck accepted, whatever its return code
HandshakeMatchAnyConnAck(r) ==
    IF ~r.ok THEN r
    ELSE IF r.packet.type = "ConnAck" THEN OkPacket(r.packet)
    ELSE IoErr("InvalidData", << "Expecting connack. Received = ", r.packet.type >>)

\* handshake, lines 136-151: the value handshake returns for what Network::read returned
HandshakeMatch(r) ==
    IF ~r.ok THEN r
    ELSE IF r.packet.type = "ConnAck" /\ r.packet.code = "Success" THEN OkPacket(r.packet)
    ELSE IF r.packet.type = "ConnAck"
    THEN IoErr("InvalidData", << "Broker rejected. Reason = ", r.packet.code >>)
    ELSE IoErr("InvalidData", << "Expecting connack. Received = ", r.packet.type >>)

\* StreamOf with one stream, that of the first worker, used by every worker
StreamShared(w) == Api

\* Client::new, lines 109-116, called at import.rs:202 inside the thread's closure: the
\* stream a client writes to is the one its own Client::new opened
StreamOf(w) == w

\* HandshakeNext with frames other than ConnAck skipped and another frame read
HandshakeNextSkipOthers(r) ==
    IF r.ok /\ r.packet.type # "ConnAck" THEN "decode" ELSE "hs_done"

\* handshake, lines 136-151: every arm of the match on the one frame read returns
HandshakeNext(r) == "hs_done"

\* OptionsAfterHandshake with the session marked as persistent once a Connect was sent
OptionsAfterHandshakeSessionKept(o) == [o EXCEPT !.clean_session = FALSE]

\* handshake, lines 120-132: the options are read through getters that return copies;
\* nothing is assigned to self.options
OptionsAfterHandshake(o) == o

\* handshake, lines 119-136: the Connect frame is written (the `?` returns the error of
\* a failed write), then Network::read is entered
HandshakeConnect(w) ==
    /\ pc[w] = "hs_connect"
    /\ \E out \in NetworkConnect(EncodeConnect(ConnectOf(options))) :
          /\ sent' = [sent EXCEPT ![StreamOf(w)] =
                                   @ \o Take(EncodeConnect(ConnectOf(options)), out.accepted)]
          /\ IF out.ret = "Ok"
             THEN /\ pc' = [pc EXCEPT ![w] = "decode"]
                  /\ caller' = [caller EXCEPT ![w] = "handshake"]
                  /\ hsNet' = [hsNet EXCEPT ![w] = << "connect", "read" >>]
                  /\ UNCHANGED hsResult
             ELSE /\ pc' = [pc EXCEPT ![w] = "hs_done"]
                  /\ hsResult' = [hsResult EXCEPT ![w] = IoErr(out.kind, << "os" >>)]
                  /\ hsNet' = [hsNet EXCEPT ![w] = << "connect" >>]
                  /\ UNCHANGED caller
    /\ attempts' = [attempts EXCEPT ![w].handshake = @ + 1]
    /\ options' = OptionsAfterHandshake(options)
    /\ readResult' = [readResult EXCEPT ![w] = NoResult]
    /\ readsInCall' = [readsInCall EXCEPT ![w] = 0]
    /\ sockReads' = [sockReads EXCEPT ![w] = << >>]
    /\ UNCHANGED << inbound, peerCloses, readBuf, required, total_read,
                    lastWrite, lastPublish, calls, received, consumedOk, consumedErr,
                    decodes, file, nextLine, published, logged, cpc,
                    shortBy, batch, newResult, optCall,
                    genVars, helperVars >>

\* handshake, lines 136-151: the match on the frame that was read
HandshakeReturn(w) ==
    /\ pc[w] = "hs_match"
    /\ hsResult' = [hsResult EXCEPT ![w] = HandshakeMatch(readResult[w])]
    /\ pc' = [pc EXCEPT ![w] = HandshakeNext(readResult[w])]
    /\ hsNet' = [hsNet EXCEPT ![w] = IF HandshakeNext(readResult[w]) = "decode"
                                      THEN Append(@, "read") ELSE @]
    /\ UNCHANGED << caller, inbound, peerCloses, readBuf, required, total_read, sent,
                    readResult, lastWrite, lastPublish, calls, received, consumedOk,
                    consumedErr, sockReads, readsInCall, decodes, file, nextLine,
                    published, logged, cpc, options, shortBy, batch, attempts,
                    newResult, optCall,
                    genVars, helperVars >>

\* The session state of the specification's data model, read off the client: the Client
\* struct (lines 100-103) stores none.
Session(w) ==
    IF pc[w] \in { "unspawned", "new", "building", "failed" } THEN "Disconnected"
    ELSE IF hsResult[w] = NoResult THEN "Handshaking"
    ELSE IF hsResult[w].ok THEN "Connected"
    ELSE "Errored"

\* publish_bytes, lines 164-172: every way the call can end
\*   ret: "Ok", "Err" (the codec's error, returned) or "Panic" (unwrap of an I/O error)
PublishBytes(topic, qos, payload) ==
    LET enc == EncodePublish(topic, qos, payload)
    IN IF ~enc.ok
       THEN { [ret |-> "Err", e |-> enc.e, frame |-> << >>, accepted |-> 0] }
       ELSE { [ret |-> IF out.ret = "Ok" THEN "Ok" ELSE "Panic", e |-> out.kind,
               frame |-> enc.bytes, accepted |-> out.accepted] :
                out \in NetworkWrite(enc.bytes) }

(***************************************************************************)
(* The peer's byte streams.                                                *)
(***************************************************************************)
ConnAckFrame(sp, code) == << 32, 2, sp, code >>
PingRespFrame == << 208, 0 >>

\* frames and fragments a peer can send: ConnAcks (accepted, rejected, with an
\* undefined return code, with a third body byte, with a short body, with no body),
\* a PingResp, a frame of packet type 0, a remaining length of five bytes, and a
\* remaining length above MAX_PACKET_SIZE
ReadUnits ==
    { ConnAckFrame(0, 0), ConnAckFrame(1, 5), ConnAckFrame(0, 6), << 32, 3, 1, 0, 7 >>,
      << 32, 1, 0 >>, << 32, 0 >>, PingRespFrame, << 0, 0 >>,
      << 32, 255, 255, 255, 255 >>, << 32, 128, 128, 128, 1 >> }

RECURSIVE UnitStreams(_)
UnitStreams(n) ==
    IF n = 0 THEN { << >> }
    ELSE UnitStreams(n - 1) \cup { s \o u : s \in UnitStreams(n - 1), u \in ReadUnits }

Prefixes(S) == UNION { { Take(s, k) : k \in 0..Len(s) } : s \in S }

\* what the peer answers to a Connect: one frame, whole or cut short, or one frame
\* followed by an accepting ConnAck
HsUnits ==
    { ConnAckFrame(sp, code) : sp \in { 0, 1 }, code \in 0..6 }
    \cup { << 32, 3, 1, 0, 7 >>, << 32, 1, 0 >>, PingRespFrame, << 0, 0 >> }
HsStreams ==
    Prefixes(HsUnits)
    \cup { u \o ConnAckFrame(0, 0) : u \in { PingRespFrame, ConnAckFrame(0, 5) } }

\* the topic, "/<database>/<table>", and the payloads the harness publishes
Topic == << 47, 116 >>
ApiPayloads == { << >>, << 97 >> }
\* QoS::AtMostOnce = 0, QoS::AtLeastOnce = 1
ApiQos == { 0, 1 }
\* the scratch buffers the harness gives to Network::write
ApiWriteBufs == { << >>, << 192, 0 >> }

(***************************************************************************)
(* Spec: one client, its methods called in any order.                      *)
(***************************************************************************)
NoWrite == [offered |-> << >>, ret |-> "None", kind |-> "", wrote |-> FALSE,
            accepted |-> 0, scratch |-> << >>]
NoPublish == [ret |-> "None", e |-> "", frame |-> << >>, accepted |-> 0,
              session |-> "", qos |-> 0, payload |-> << >>]

\* gen_stats without an entry for the model; nothing printed
NoStat == -1
\* no call of a helper of model.rs has been made or has returned
NoCall == [fn |-> "none"]

\* the generator is not run
GenIdle ==
    /\ gen = [interval |-> 0, step |-> 1, out_of_order |-> FALSE, per_ts |-> 1]
    /\ gcpc = "unused"
    /\ gpc = [w \in Workers |-> "unused"]
    /\ tsp = [w \in Workers |-> 0]
    /\ generated = [w \in Workers |-> 0]
    /\ num_all_lines = [w \in Workers |-> 0]
    /\ ooo_buf = [w \in Workers |-> << >>]
    /\ ooo_ct = [w \in Workers |-> 0]
    /\ gen_file = [w \in Workers |-> << >>]
    /\ dropped = [w \in Workers |-> 0]
    /\ gen_stats = NoStat
    /\ mutex = 0
    /\ entry = [w \in Workers |-> NoStat]
    /\ printed = NoStat

\* no helper of model.rs is called
HelperIdle == callIn = NoCall /\ callOut = NoCall

InitWith(streams) ==
    /\ pc = [w \in Workers |-> IF w = Api THEN "idle" ELSE "unused"]
    /\ caller = [w \in Workers |-> "api"]
    /\ inbound \in [Workers -> streams]
    /\ \A w \in Workers : w # Api => inbound[w] = << >>
    /\ peerCloses \in [Workers -> BOOLEAN]
    /\ \A w \in Workers : w # Api => peerCloses[w]
    /\ readBuf = [w \in Workers |-> << >>]
    /\ required = [w \in Workers |-> 0]
    /\ total_read = [w \in Workers |-> 0]
    /\ sent = [w \in Workers |-> << >>]
    /\ readResult = [w \in Workers |-> NoResult]
    /\ hsResult = [w \in Workers |-> NoResult]
    /\ lastWrite = [w \in Workers |-> NoWrite]
    /\ lastPublish = [w \in Workers |-> NoPublish]
    /\ calls = [w \in Workers |-> 0]
    /\ received = [w \in Workers |-> << >>]
    /\ consumedOk = [w \in Workers |-> 0]
    /\ consumedErr = [w \in Workers |-> 0]
    /\ sockReads = [w \in Workers |-> << >>]
    /\ readsInCall = [w \in Workers |-> 0]
    /\ decodes = [w \in Workers |-> << >>]
    /\ file = [w \in Workers |-> << >>]
    /\ nextLine = [w \in Workers |-> 1]
    /\ published = [w \in Workers |-> << >>]
    /\ logged = [w \in Workers |-> 0]
    /\ cpc = "unused"
    /\ options = ImportOptions("ip")
    /\ shortBy = MAX_PACKET_SIZE
    /\ batch = 1
    /\ attempts = [w \in Workers |-> [new |-> IF w = Api THEN 1 ELSE 0, handshake |-> 0]]
    /\ hsNet = [w \in Workers |-> << >>]
    /\ newResult = [w \in Workers |-> IF w = Api THEN "Ok" ELSE "None"]
    /\ optCall = NoOptCall
    /\ GenIdle
    /\ HelperIdle

Init == InitWith(HsStreams)

\* the harness calls Client::handshake
CallHandshake(w) ==
    /\ pc[w] = "idle"
    /\ calls[w] < MaxCalls
    /\ calls' = [calls EXCEPT ![w] = @ + 1]
    /\ pc' = [pc EXCEPT ![w] = "hs_connect"]
    /\ UNCHANGED << caller, inbound, peerCloses, readBuf, required, total_read, sent,
                    readResult, hsResult, lastWrite, lastPublish, received, consumedOk,
                    consumedErr, sockReads, readsInCall, decodes, file, nextLine, published, logged,
                    cpc, options, shortBy, batch, attempts, hsNet,
                    newResult, optCall,
                    genVars, helperVars >>

\* Client::handshake has returned to the harness
ApiHandshakeDone(w) ==
    /\ pc[w] = "hs_done"
    /\ pc' = [pc EXCEPT ![w] = "idle"]
    /\ UNCHANGED << caller, inbound, peerCloses, readBuf, required, total_read, sent,
                    readResult, hsResult, lastWrite, lastPublish, calls, received,
                    consumedOk, consumedErr, sockReads, readsInCall, decodes, file, nextLine,
                    published, logged, cpc, options, shortBy, batch, attempts, hsNet,
                    newResult, optCall,
                    genVars, helperVars >>

\* PublishReturnPc with the call waiting for an acknowledgment frame before it returns
PublishReturnPcAwaitsAck(ret) == IF ret = "Panic" THEN "panicked" ELSE "decode"

\* publish_bytes, lines 170-172: after the write the call returns Ok(()), or the unwrap
\* of a failed write has panicked
PublishReturnPc(ret) == IF ret = "Panic" THEN "panicked" ELSE "idle"

\* the harness calls Client::publish_bytes(topic, qos, payload)
CallPublish(w) ==
    /\ pc[w] = "idle"
    /\ calls[w] < MaxCalls
    /\ \E qos \in ApiQos, payload \in ApiPayloads :
          \E out \in PublishBytes(Topic, qos, payload) :
             /\ sent' = [sent EXCEPT ![w] = @ \o Take(out.frame, out.accepted)]
             /\ lastPublish' = [lastPublish EXCEPT
                                  ![w] = [ret |-> out.ret, e |-> out.e, frame |-> out.frame,
                                          accepted |-> out.accepted, session |-> Session(w),
                                          qos |-> qos, payload |-> payload]]
             /\ pc' = [pc EXCEPT ![w] = PublishReturnPc(out.ret)]
    /\ calls' = [calls EXCEPT ![w] = @ + 1]
    /\ UNCHANGED << caller, inbound, peerCloses, readBuf, required, total_read,
                    readResult, hsResult, lastWrite, received, consumedOk, consumedErr,
                    sockReads, readsInCall, decodes, file, nextLine, published, logged,
                    cpc, options, shortBy, batch, attempts, hsNet,
                    newResult, optCall,
                    genVars, helperVars >>

\* the harness calls Network::write(&mut buf)
CallWrite(w) ==
    /\ pc[w] = "idle"
    /\ calls[w] < MaxCalls
    /\ \E buf \in ApiWriteBufs :
          \E out \in NetworkWrite(buf) :
             /\ sent' = [sent EXCEPT ![w] = @ \o Take(buf, out.accepted)]
             /\ lastWrite' = [lastWrite EXCEPT
                                ![w] = [offered |-> buf, ret |-> out.ret, kind |-> out.kind,
                                        wrote |-> out.wrote, accepted |-> out.accepted,
                                        scratch |-> out.scratch]]
    /\ calls' = [calls EXCEPT ![w] = @ + 1]
    /\ UNCHANGED << pc, caller, inbound, peerCloses, readBuf, required, total_read,
                    readResult, hsResult, lastPublish, received, consumedOk, consumedErr,
                    sockReads, readsInCall, decodes, file, nextLine, published, logged,
                    cpc, options, shortBy, batch, attempts, hsNet,
                    newResult, optCall,
                    genVars, helperVars >>

Next ==
    \/ CallHandshake(Api)
    \/ HandshakeConnect(Api)
    \/ Decode(Api)
    \/ SockReadData(Api)
    \/ SockReadEof(Api)
    \/ SockReadFault(Api)
    \/ HandshakeReturn(Api)
    \/ ApiHandshakeDone(Api)
    \/ CallPublish(Api)
    \/ CallWrite(Api)

Spec == Init /\ [][Next]_vars

(***************************************************************************)
(* SpecRead: Network::read called again and again on one stream of         *)
(* arbitrary frames and fragments.                                         *)
(***************************************************************************)
InitRead == InitWith(Prefixes(UnitStreams(MaxUnits)))

\* the harness calls Network::read
CallRead(w) ==
    /\ pc[w] = "idle"
    /\ calls[w] < MaxCalls
    /\ calls' = [calls EXCEPT ![w] = @ + 1]
    /\ caller' = [caller EXCEPT ![w] = "api"]
    /\ pc' = [pc EXCEPT ![w] = "decode"]
    /\ readResult' = [readResult EXCEPT ![w] = NoResult]
    /\ readsInCall' = [readsInCall EXCEPT ![w] = 0]
    /\ sockReads' = [sockReads EXCEPT ![w] = << >>]
    /\ UNCHANGED << inbound, peerCloses, readBuf, required, total_read, sent,
                    hsResult, lastWrite, lastPublish, received, consumedOk, consumedErr,
                    decodes, file, nextLine, published, logged, cpc, options,
                    shortBy, batch, attempts, hsNet,
                    newResult, optCall,
                    genVars, helperVars >>

NextRead ==
    \/ CallRead(Api)
    \/ Decode(Api)
    \/ SockReadData(Api)
    \/ SockReadEof(Api)
    \/ SockReadFault(Api)

SpecRead == InitRead /\ [][NextRead]_vars

(***************************************************************************)
(* SpecImport: import.rs, Importer::import_csv_to_ib.                      *)
(***************************************************************************)
\* what the broker does on one worker's connection
ImportPeers ==
    { [bytes |-> ConnAckFrame(0, 0), closes |-> FALSE],
      [bytes |-> ConnAckFrame(0, 5), closes |-> FALSE],
      [bytes |-> PingRespFrame, closes |-> FALSE],
      [bytes |-> << 32, 2 >>, closes |-> TRUE],
      [bytes |-> << >>, closes |-> TRUE] }

\* the input file of worker w with n lines: line i is the two bytes w, i
FileOf(w, n) == [i \in 1..n |-> << 64 + w, 48 + i >>]

\* num_rows_in_batch values the importer is run with (default 1)
BatchSizes == { 1, 2 }

\* itertools join("\n") on the lines of one chunk
RECURSIVE JoinLines(_)
JoinLines(ls) ==
    IF ls = << >> THEN << >>
    ELSE IF Len(ls) = 1 THEN ls[1]
    ELSE ls[1] \o << 10 >> \o JoinLines(Tail(ls))

\* lines.chunks(batch): the chunk that starts at line i
ChunkAt(f, i, b) == SubSeq(f, i, Min(i + b - 1, Len(f)))

InitImport ==
    /\ pc = [w \in Workers |-> "unspawned"]
    /\ caller = [w \in Workers |-> "handshake"]
    /\ inbound = [w \in Workers |-> << >>]
    /\ peerCloses = [w \in Workers |-> FALSE]
    /\ readBuf = [w \in Workers |-> << >>]
    /\ required = [w \in Workers |-> 0]
    /\ total_read = [w \in Workers |-> 0]
    /\ sent = [w \in Workers |-> << >>]
    /\ readResult = [w \in Workers |-> NoResult]
    /\ hsResult = [w \in Workers |-> NoResult]
    /\ lastWrite = [w \in Workers |-> NoWrite]
    /\ lastPublish = [w \in Workers |-> NoPublish]
    /\ calls = [w \in Workers |-> 0]
    /\ received = [w \in Workers |-> << >>]
    /\ consumedOk = [w \in Workers |-> 0]
    /\ consumedErr = [w \in Workers |-> 0]
    /\ sockReads = [w \in Workers |-> << >>]
    /\ readsInCall = [w \in Workers |-> 0]
    /\ decodes = [w \in Workers |-> << >>]
    /\ file = [w \in Workers |-> << >>]
    /\ nextLine = [w \in Workers |-> 1]
    /\ published = [w \in Workers |-> << >>]
    /\ logged = [w \in Workers |-> 0]
    /\ cpc = "spawning"
    /\ options \in { ImportOptions(a) : a \in { "ip", "name" } }
    /\ shortBy = MaxShort
    /\ batch \in BatchSizes
    /\ attempts = [w \in Workers |-> [new |-> 0, handshake |-> 0]]
    /\ hsNet = [w \in Workers |-> << >>]
    /\ newResult = [w \in Workers |-> "None"]
    /\ optCall = NoOptCall
    /\ GenIdle
    /\ HelperIdle

\* import.rs:191-201: the coordinator spawns the thread of the next directory entry
Spawn(w) ==
    /\ cpc = "spawning"
    /\ pc[w] = "unspawned"
    /\ \A v \in Workers : v < w => pc[v] # "unspawned"
    /\ pc' = [pc EXCEPT ![w] = "new"]
    /\ cpc' = IF \A v \in Workers : v # w => pc[v] # "unspawned" THEN "joining" ELSE cpc
    /\ UNCHANGED << caller, inbound, peerCloses, readBuf, required, total_read, sent,
                    readResult, hsResult, lastWrite, lastPublish, calls, received,
                    consumedOk, consumedErr, sockReads, readsInCall, decodes, file, nextLine,
                    published, logged, options, shortBy, batch, attempts, hsNet,
                    newResult, optCall,
                    genVars, helperVars >>

\* Client::new (client.rs:109-117): "host:port" must parse as a SocketAddr (unwrap)
\* and connect_timeout must succeed
ClientNewOutcomes(o) ==
    IF o.broker_addr # "ip" THEN { "PanicParse" }
    ELSE { "Ok", "ErrTimedOut", "ErrConnectionRefused" }

\* import.rs:202: Client::new(opts).unwrap(); a connection that is established is one
\* to a broker that behaves in one of the ways of ImportPeers
WorkerClientNew(w) ==
    /\ pc[w] = "new"
    /\ attempts' = [attempts EXCEPT ![w].new = @ + 1]
    /\ \E out \in ClientNewOutcomes(options) :
          /\ newResult' = [newResult EXCEPT ![w] = out]
          /\ IF out = "Ok"
             THEN \E peer \in ImportPeers :
                     /\ pc' = [pc EXCEPT ![w] = "hs_connect"]
                     /\ inbound' = [inbound EXCEPT ![w] = peer.bytes]
                     /\ peerCloses' = [peerCloses EXCEPT ![w] = peer.closes]
             ELSE /\ pc' = [pc EXCEPT ![w] = "panicked"]
                  /\ UNCHANGED << inbound, peerCloses >>
    /\ UNCHANGED << caller, readBuf, required, total_read, sent,
                    readResult, hsResult, lastWrite, lastPublish, calls, received,
                    consumedOk, consumedErr, sockReads, readsInCall, decodes, file, nextLine,
                    published, logged, cpc, options, shortBy, batch, hsNet, optCall,
                    genVars, helperVars >>

\* UnwrapHandshake with the error of the handshake ignored
UnwrapHandshakeIgnored(r) == "loop"

\* UnwrapHandshake with a failed handshake called again
UnwrapHandshakeRetry(r) == IF r.ok THEN "loop" ELSE "hs_connect"

\* import.rs:203: client.handshake().unwrap() panics the thread on Err
UnwrapHandshake(r) == IF r.ok THEN "loop" ELSE "panicked"

\* AfterPublish with a handshake before every batch
AfterPublishRehandshake(ret) == IF ret = "Panic" THEN "panicked" ELSE "hs_connect"

\* import.rs:218-223 and client.rs:170: a panic inside publish_bytes ends the thread;
\* after Ok or a logged Err the loop goes on with the next chunk
AfterPublish(ret) == IF ret = "Panic" THEN "panicked" ELSE "loop"

\* import.rs:203-216: client.handshake().unwrap(), then the worker opens its file,
\* which holds 0..MaxLines lines
WorkerUnwrapHandshake(w) ==
    /\ pc[w] = "hs_done"
    /\ pc' = [pc EXCEPT ![w] = UnwrapHandshake(hsResult[w])]
    /\ IF UnwrapHandshake(hsResult[w]) = "loop"
       THEN \E n \in 0..MaxLines : file' = [file EXCEPT ![w] = FileOf(w, n)]
       ELSE UNCHANGED file
    /\ UNCHANGED << caller, inbound, peerCloses, readBuf, required, total_read, sent,
                    readResult, hsResult, lastWrite, lastPublish, calls, received,
                    consumedOk, consumedErr, sockReads, readsInCall, decodes, nextLine,
                    published, logged, cpc, options, shortBy, batch, attempts, hsNet,
                    newResult, optCall,
                    genVars, helperVars >>

\* import.rs:218-223: one iteration of the loop over the chunks of the file
WorkerPublish(w) ==
    /\ pc[w] = "loop"
    /\ nextLine[w] <= Len(file[w])
    /\ LET chunk == ChunkAt(file[w], nextLine[w], batch)
           text == JoinLines(chunk)
       IN /\ \E out \in PublishBytes(Topic, 0, text) :
                /\ sent' = [sent EXCEPT ![StreamOf(w)] = @ \o Take(out.frame, out.accepted)]
                /\ lastPublish' = [lastPublish EXCEPT
                                     ![w] = [ret |-> out.ret, e |-> out.e,
                                             frame |-> out.frame,
                                             accepted |-> out.accepted,
                                             session |-> Session(w), qos |-> 0,
                                             payload |-> text]]
                /\ logged' = [logged EXCEPT ![w] = IF out.ret = "Err" THEN @ + 1 ELSE @]
                /\ pc' = [pc EXCEPT ![w] = AfterPublish(out.ret)]
          /\ published' = [published EXCEPT ![w] = Append(@, text)]
          /\ nextLine' = [nextLine EXCEPT ![w] = @ + Len(chunk)]
    /\ UNCHANGED << caller, inbound, peerCloses, readBuf, required, total_read,
                    readResult, hsResult, lastWrite, calls, received, consumedOk,
                    consumedErr, sockReads, readsInCall, decodes, file, cpc, options,
                    shortBy, batch, attempts, hsNet,
                    newResult, optCall,
                    genVars, helperVars >>

\* import.rs:218-224: the chunks are exhausted and the thread's closure returns
WorkerDone(w) ==
    /\ pc[w] = "loop"
    /\ nextLine[w] > Len(file[w])
    /\ pc' = [pc EXCEPT ![w] = "done"]
    /\ UNCHANGED << caller, inbound, peerCloses, readBuf, required, total_read, sent,
                    readResult, hsResult, lastWrite, lastPublish, calls, received,
                    consumedOk, consumedErr, sockReads, readsInCall, decodes, file, nextLine,
                    published, logged, cpc, options, shortBy, batch, attempts, hsNet,
                    newResult, optCall,
                    genVars, helperVars >>

\* ScopeJoined for threads that are spawned and not waited for
ScopeJoinedDetached(p) == \A w \in Workers : p[w] # "unspawned"

\* import.rs:190: thread::scope joins every thread spawned in it before it returns
ScopeJoined(p) == \A w \in Workers : p[w] \in { "done", "panicked" }

\* import.rs:190 and 226-228: thread::scope returns when every thread has finished;
\* it panics if one of them panicked, otherwise import_csv_to_ib returns Ok(())
ScopeExit ==
    /\ cpc = "joining"
    /\ ScopeJoined(pc)
    /\ cpc' = IF \E w \in Workers : pc[w] = "panicked" THEN "panicked" ELSE "returned"
    /\ UNCHANGED << pc, caller, inbound, peerCloses, readBuf, required, total_read, sent,
                    readResult, hsResult, lastWrite, lastPublish, calls, received,
                    consumedOk, consumedErr, sockReads, readsInCall, decodes, file, nextLine,
                    published, logged, options, shortBy, batch, attempts, hsNet,
                    newResult, optCall,
                    genVars, helperVars >>

NextImport ==
    \/ \E w \in Workers : Spawn(w)
    \/ \E w \in Workers : WorkerClientNew(w)
    \/ \E w \in Workers : HandshakeConnect(w)
    \/ \E w \in Workers : Decode(w)
    \/ \E w \in Workers : SockReadData(w)
    \/ \E w \in Workers : SockReadEof(w)
    \/ \E w \in Workers : SockReadFault(w)
    \/ \E w \in Workers : HandshakeReturn(w)
    \/ \E w \in Workers : WorkerUnwrapHandshake(w)
    \/ \E w \in Workers : WorkerPublish(w)
    \/ \E w \in Workers : WorkerDone(w)
    \/ ScopeExit

SpecImport == InitImport /\ [][NextImport]_vars

(***************************************************************************)
(* SpecOptions: a caller builds Connection Options through the public      *)
(* constructors and setters of MqttOptions, then constructs a Client from  *)
(* them and performs the handshake.                                        *)
(***************************************************************************)
MaxKeys == 2

\* the client identifiers, hosts and keep-alive durations (milliseconds) a caller passes
ClientIds == { << >>, << 32, 97 >>, << 97 >> }
Hosts == { "ip", "name" }
KeepAlives == { 4999, 5000, 65541 * 1000 }

\* the packet size limits a caller passes: under the size of a ConnAck, and the default
PacketSizes == { 1, 10 * 1024 }

\* the query keys of the URLs and, for each, the values given to it:
\* "3", "60", "x"; "a", " a"; "false", "x"; "9"; "7"; "x"
QueryKeys ==
    { "keep_alive_secs", "client_id", "clean_session", "max_incoming_packet_size_bytes",
      "conn_timeout_secs", "foo" }
QueryValues(k) ==
    CASE k = "keep_alive_secs" -> { << 51 >>, << 54, 48 >>, << 120 >> }
      [] k = "client_id" -> { << 97 >>, << 32, 97 >> }
      [] k = "clean_session" -> { << 102, 97, 108, 115, 101 >>, << 120 >> }
      [] k = "max_incoming_packet_size_bytes" -> { << 57 >> }
      [] k = "conn_timeout_secs" -> { << 55 >> }
      [] OTHER -> { << 120 >> }
Queries ==
    UNION { { q \in [K -> UNION { QueryValues(k) : k \in K }] :
                \A k \in K : q[k] \in QueryValues(k) } :
            K \in { X \in SUBSET QueryKeys : Cardinality(X) <= MaxKeys } }
Urls ==
    { [scheme |-> sc, host |-> h, user |-> u, query |-> q] :
        sc \in { "mqtt", "http" }, h \in Hosts, u \in { << >>, << 117 >> }, q \in Queries }

\* the brokers a connection of this specification reaches: one accepts, one closes,
\* one accepts the connection and then neither sends nor closes
OptionsPeers ==
    { [bytes |-> ConnAckFrame(0, 0), closes |-> FALSE], [bytes |-> << >>, closes |-> TRUE],
      [bytes |-> << >>, closes |-> FALSE] }

InitOptions ==
    /\ pc = [w \in Workers |-> IF w = Api THEN "building" ELSE "unused"]
    /\ caller = [w \in Workers |-> "api"]
    /\ inbound = [w \in Workers |-> << >>]
    /\ peerCloses = [w \in Workers |-> TRUE]
    /\ readBuf = [w \in Workers |-> << >>]
    /\ required = [w \in Workers |-> 0]
    /\ total_read = [w \in Workers |-> 0]
    /\ sent = [w \in Workers |-> << >>]
    /\ readResult = [w \in Workers |-> NoResult]
    /\ hsResult = [w \in Workers |-> NoResult]
    /\ lastWrite = [w \in Workers |-> NoWrite]
    /\ lastPublish = [w \in Workers |-> NoPublish]
    /\ calls = [w \in Workers |-> 0]
    /\ received = [w \in Workers |-> << >>]
    /\ consumedOk = [w \in Workers |-> 0]
    /\ consumedErr = [w \in Workers |-> 0]
    /\ sockReads = [w \in Workers |-> << >>]
    /\ readsInCall = [w \in Workers |-> 0]
    /\ decodes = [w \in Workers |-> << >>]
    /\ file = [w \in Workers |-> << >>]
    /\ nextLine = [w \in Workers |-> 1]
    /\ published = [w \in Workers |-> << >>]
    /\ logged = [w \in Workers |-> 0]
    /\ cpc = "unused"
    /\ options = NoOptions
    /\ shortBy = MAX_PACKET_SIZE
    /\ batch = 1
    /\ attempts = [w \in Workers |-> [new |-> 0, handshake |-> 0]]
    /\ hsNet = [w \in Workers |-> << >>]
    /\ newResult = [w \in Workers |-> "None"]
    /\ optCall = NoOptCall
    /\ GenIdle
    /\ HelperIdle

\* the caller calls MqttOptions::new(id, host, port)
OptNew ==
    /\ pc[Api] = "building"
    /\ options = NoOptions
    /\ calls[Api] < MaxCalls
    /\ \E id \in ClientIds, host \in Hosts :
          LET r == MqttOptionsNew(id, host)
          IN /\ options' = r.options
             /\ optCall' = [NoOptCall EXCEPT !.op = "new", !.ret = r.ret, !.id = id]
             /\ pc' = [pc EXCEPT ![Api] = IF r.ret = "Panic" THEN "panicked" ELSE @]
    /\ calls' = [calls EXCEPT ![Api] = @ + 1]
    /\ UNCHANGED << caller, inbound, peerCloses, readBuf, required, total_read, sent,
                    readResult, hsResult, lastWrite, lastPublish, received, consumedOk,
                    consumedErr, sockReads, readsInCall, decodes, file, nextLine,
                    published, logged, cpc, shortBy, batch, attempts, hsNet, newResult,
                    genVars, helperVars >>

\* the caller calls MqttOptions::try_from(url)
OptTryFrom ==
    /\ pc[Api] = "building"
    /\ options = NoOptions
    /\ calls[Api] < MaxCalls
    /\ \E url \in Urls : \E r \in TryFromUrl(url) :
          /\ options' = r.options
          /\ optCall' = [NoOptCall EXCEPT !.op = "try_from", !.ret = r.ret, !.key = r.key,
                                         !.url = url]
    /\ calls' = [calls EXCEPT ![Api] = @ + 1]
    /\ UNCHANGED pc
    /\ UNCHANGED << caller, inbound, peerCloses, readBuf, required, total_read, sent,
                    readResult, hsResult, lastWrite, lastPublish, received, consumedOk,
                    consumedErr, sockReads, readsInCall, decodes, file, nextLine,
                    published, logged, cpc, shortBy, batch, attempts, hsNet, newResult,
                    genVars, helperVars >>

\* the caller calls set_client_id(id) on the options it has
OptSetClientId ==
    /\ pc[Api] = "building"
    /\ options # NoOptions
    /\ calls[Api] < MaxCalls
    /\ \E id \in ClientIds :
          LET r == SetClientId(options, id)
          IN /\ options' = r.options
             /\ optCall' = [NoOptCall EXCEPT !.op = "set_client_id", !.ret = r.ret,
                                            !.id = id]
    /\ calls' = [calls EXCEPT ![Api] = @ + 1]
    /\ UNCHANGED pc
    /\ UNCHANGED << caller, inbound, peerCloses, readBuf, required, total_read, sent,
                    readResult, hsResult, lastWrite, lastPublish, received, consumedOk,
                    consumedErr, sockReads, readsInCall, decodes, file, nextLine,
                    published, logged, cpc, shortBy, batch, attempts, hsNet, newResult,
                    genVars, helperVars >>

\* the caller calls set_keep_alive(d) on the options it has
OptSetKeepAlive ==
    /\ pc[Api] = "building"
    /\ options # NoOptions
    /\ calls[Api] < MaxCalls
    /\ \E d \in KeepAlives :
          LET r == SetKeepAlive(options, d)
          IN /\ options' = r.options
             /\ optCall' = [NoOptCall EXCEPT !.op = "set_keep_alive", !.ret = r.ret,
                                            !.d = d]
             /\ pc' = [pc EXCEPT ![Api] = IF r.ret = "Panic" THEN "panicked" ELSE @]
    /\ calls' = [calls EXCEPT ![Api] = @ + 1]
    /\ UNCHANGED << caller, inbound, peerCloses, readBuf, required, total_read, sent,
                    readResult, hsResult, lastWrite, lastPublish, received, consumedOk,
                    consumedErr, sockReads, readsInCall, decodes, file, nextLine,
                    published, logged, cpc, shortBy, batch, attempts, hsNet, newResult,
                    genVars, helperVars >>

\* the caller calls set_max_packet_size(incoming, outgoing) on the options it has
OptSetMaxPacketSize ==
    /\ pc[Api] = "building"
    /\ options # NoOptions
    /\ calls[Api] < MaxCalls
    /\ \E incoming \in PacketSizes :
          LET r == SetMaxPacketSize(options, incoming, 10 * 1024)
          IN /\ options' = r.options
             /\ optCall' = [NoOptCall EXCEPT !.op = "set_max_packet_size", !.ret = r.ret,
                                            !.size = incoming]
    /\ calls' = [calls EXCEPT ![Api] = @ + 1]
    /\ UNCHANGED pc
    /\ UNCHANGED << caller, inbound, peerCloses, readBuf, required, total_read, sent,
                    readResult, hsResult, lastWrite, lastPublish, received, consumedOk,
                    consumedErr, sockReads, readsInCall, decodes, file, nextLine,
                    published, logged, cpc, shortBy, batch, attempts, hsNet, newResult,
                    genVars, helperVars >>

\* the caller calls Client::new(options) and, given a client, Client::handshake
OptClientNew ==
    /\ pc[Api] = "building"
    /\ options # NoOptions
    /\ attempts' = [attempts EXCEPT ![Api].new = @ + 1]
    /\ \E out \in ClientNewOutcomes(options) :
          /\ newResult' = [newResult EXCEPT ![Api] = out]
          /\ CASE out = "Ok" ->
                    \E peer \in OptionsPeers :
                       /\ pc' = [pc EXCEPT ![Api] = "hs_connect"]
                       /\ inbound' = [inbound EXCEPT ![Api] = peer.bytes]
                       /\ peerCloses' = [peerCloses EXCEPT ![Api] = peer.closes]
               [] out = "PanicParse" ->
                    /\ pc' = [pc EXCEPT ![Api] = "panicked"]
                    /\ UNCHANGED << inbound, peerCloses >>
               [] OTHER ->
                    /\ pc' = [pc EXCEPT ![Api] = "failed"]
                    /\ UNCHANGED << inbound, peerCloses >>
    /\ UNCHANGED << caller, readBuf, required, total_read, sent,
                    readResult, hsResult, lastWrite, lastPublish, calls, received,
                    consumedOk, consumedErr, sockReads, readsInCall, decodes, file, nextLine,
                    published, logged, cpc, options, shortBy, batch, hsNet, optCall,
                    genVars, helperVars >>

NextOptions ==
    \/ OptNew
    \/ OptTryFrom
    \/ OptSetClientId
    \/ OptSetKeepAlive
    \/ OptSetMaxPacketSize
    \/ OptClientNew
    \/ HandshakeConnect(Api)
    \/ Decode(Api)
    \/ SockReadData(Api)
    \/ SockReadEof(Api)
    \/ SockReadFault(Api)
    \/ HandshakeReturn(Api)

SpecOptions == InitOptions /\ [][NextOptions]_vars

\* SpecOptions with the scheduling the program has: the thread that called handshake
\* keeps running, a blocked socket read returns once bytes have arrived or the peer has
\* closed. Nothing obliges the socket to fail, and the caller may stop building options.
SpecOptionsFair ==
    /\ SpecOptions
    /\ WF_vars(HandshakeConnect(Api))
    /\ WF_vars(Decode(Api))
    /\ WF_vars(SockReadData(Api))
    /\ WF_vars(SockReadEof(Api))
    /\ WF_vars(HandshakeReturn(Api))

(***************************************************************************)
(* Properties.                                                             *)
(***************************************************************************)
\* Client::handshake has just returned after reading a frame
HandshakeReadFrame(w) == pc[w] = "hs_done" /\ readResult[w].ok

\* C1: for every ConnAck whose return code is not Accepted, Client::handshake fails
\* with an error that carries that return code as a value (Error::Connect(code)), and
\* the session is not Connected.
C1_RejectedCarriesCode ==
    \A w \in Workers :
       ( /\ HandshakeReadFrame(w)
         /\ readResult[w].packet.type = "ConnAck"
         /\ readResult[w].packet.code # "Success" )
       => /\ ~hsResult[w].ok
          /\ hsResult[w].err.variant = "Connect"
          /\ hsResult[w].err.code = readResult[w].packet.code
          /\ Session(w) # "Connected"

\* C2: if the frame read during Client::handshake is a ConnAck whose return code is
\* Accepted, handshake returns Ok with that same ConnAck (session-present flag and
\* return code unchanged) and the session is Connected.
C2_AcceptedReturnsSameConnAck ==
    \A w \in Workers :
       ( /\ HandshakeReadFrame(w)
         /\ readResult[w].packet.type = "ConnAck"
         /\ readResult[w].packet.code = "Success" )
       => /\ hsResult[w].ok
          /\ hsResult[w].packet = readResult[w].packet
          /\ Session(w) = "Connected"

\* an accepted handshake whose ConnAck has the session-present flag set
C2_Witness ==
    /\ HandshakeReadFrame(Api)
    /\ hsResult[Api].ok
    /\ hsResult[Api].packet.type = "ConnAck"
    /\ hsResult[Api].packet.session_present

\* C3: Client::publish_bytes called on a client that is not Connected fails with
\* NotConnected and writes no byte to the stream.
C3_PublishRequiresConnected ==
    \A w \in Workers :
       ( lastPublish[w].ret # "None" /\ lastPublish[w].session # "Connected" )
       => /\ lastPublish[w].ret = "Err"
          /\ lastPublish[w].e = "NotConnected"
          /\ lastPublish[w].accepted = 0

\* C4: after Network::write returns Ok for a non-empty buffer, the stream has received
\* every byte of it, however many bytes the stream accepts in one write call.
C4_WriteDeliversWholeFrame ==
    \A w \in Workers :
       ( lastWrite[w].ret = "Ok" /\ lastWrite[w].offered # << >> )
       => /\ lastWrite[w].accepted = Len(lastWrite[w].offered)
          /\ lastWrite[w].scratch = << >>

\* C5: a worker whose handshake was accepted ends only after it has handed every batch
\* of its file to publish_bytes, whatever failures the publishes met, and it ends
\* normally.
C5_WorkerPublishesEveryBatch ==
    \A w \in Workers :
       ( pc[w] \in { "done", "panicked" } /\ hsResult[w].ok )
       => /\ nextLine[w] > Len(file[w])
          /\ pc[w] = "done"

\* Network::read has returned and no later call has been entered
ReadReturned(w) == readResult[w] # NoResult

\* the last socket read of the call found the stream closed (returned zero bytes)
ZeroRead(w) == sockReads[w] # << >> /\ sockReads[w][Len(sockReads[w])].got = 0

\* C6: when the stream read returns zero bytes, Network::read fails with
\* ConnectionAborted if the read buffer is empty and with ConnectionReset if the read
\* buffer holds a partial frame.
C6_ZeroReadErrorKind ==
    \A w \in Workers :
       ( ReadReturned(w) /\ ZeroRead(w) )
       => /\ ~readResult[w].ok
          /\ readResult[w].err.variant = "Io"
          /\ V4Read(readBuf[w], MAX_PACKET_SIZE).st = "insufficient"
          /\ IF readBuf[w] = << >>
             THEN readResult[w].err.kind = "ConnectionAborted"
             ELSE readResult[w].err.kind = "ConnectionReset"

\* the peer closed after three bytes of a four-byte frame
C6_Witness ==
    /\ ReadReturned(Api)
    /\ ZeroRead(Api)
    /\ Len(readBuf[Api]) = 3
    /\ readResult[Api].err.kind = "ConnectionReset"

\* Network::read failed with ConnectionAborted
Aborted(w) ==
    /\ ReadReturned(w)
    /\ ~readResult[w].ok
    /\ readResult[w].err.kind = "ConnectionAborted"

\* C7 as stated: a call fails with ConnectionAborted only if no byte was ever received
\* on the stream; not after one or more decoded frames.
C7_AbortedOnlyBeforeAnyByte ==
    \A w \in Workers : Aborted(w) => received[w] = << >> /\ decodes[w] = << >>

\* C7 as amended: a call fails with ConnectionAborted exactly when the stream is found
\* closed while the read buffer is empty, that is, when every byte received so far was
\* removed by earlier decodes.
C7_AbortedIffNothingPending ==
    \A w \in Workers :
       /\ Aborted(w) =>
             /\ ZeroRead(w)
             /\ readBuf[w] = << >>
             /\ Len(received[w]) = consumedOk[w] + consumedErr[w]
       /\ ( ReadReturned(w) /\ ZeroRead(w)
            /\ Len(received[w]) = consumedOk[w] + consumedErr[w] ) => Aborted(w)

\* the peer closed after a frame that was decoded and returned
C7_Witness == Aborted(Api) /\ decodes[Api] # << >> /\ received[Api] # << >>

\* the packets a stream holds, decoded with all its bytes in the buffer at once
RECURSIVE RefPackets(_)
RefPackets(stream) ==
    LET r == V4Read(stream, MAX_PACKET_SIZE)
    IN IF r.st = "ok" THEN << r.packet >> \o RefPackets(r.rest)
       ELSE IF r.st = "error" /\ Len(r.rest) < Len(stream) THEN RefPackets(r.rest)
       ELSE << >>

\* C8: however the bytes of the stream are split into partial socket reads, the frames
\* Network::read returns are the frames of the stream decoded with all bytes present:
\* the same values in the same order, and none missing once the stream has ended.
C8_SplitReadsDecodeTheSame ==
    \A w \in Workers :
       LET ref == RefPackets(received[w] \o inbound[w])
       IN /\ Len(decodes[w]) <= Len(ref)
          /\ decodes[w] = Take(ref, Len(decodes[w]))
          /\ ( ReadReturned(w) /\ readResult[w].ok ) =>
                readResult[w].packet = ref[Len(decodes[w])]
          /\ ( ReadReturned(w) /\ ZeroRead(w) ) => decodes[w] = ref

\* a four-byte ConnAck that arrived one byte per socket read
C8_Witness ==
    /\ ReadReturned(Api)
    /\ readResult[Api].ok
    /\ readResult[Api].packet.type = "ConnAck"
    /\ readsInCall[Api] = 4

RECURSIVE SumGot(_)
SumGot(rs) == IF rs = << >> THEN 0 ELSE rs[1].got + SumGot(Tail(rs))

\* C9 as stated: between two decode attempts Network::read performs exactly one
\* socket read.
C9_OneSocketReadPerDecode ==
    \A w \in Workers : Len(sockReads[w]) <= 1

\* C9 as amended: after the codec asks for N bytes, every socket read requests at most
\* N bytes, socket reads go on while fewer than N bytes have arrived, and the decode is
\* retried as soon as N or more have arrived.
C9_ReadsUntilRequiredArrived ==
    \A w \in Workers :
       /\ \A i \in 1..Len(sockReads[w]) : sockReads[w][i].req <= required[w]
       /\ pc[w] = "read_bytes" =>
             /\ SumGot(sockReads[w]) = total_read[w]
             /\ total_read[w] < required[w]
       /\ ( pc[w] = "decode" /\ sockReads[w] # << >> ) =>
             /\ SumGot(sockReads[w]) >= required[w]
             /\ SumGot(Take(sockReads[w], Len(sockReads[w]) - 1)) < required[w]

\* a decode retried after two socket reads
C9_Witness == pc[Api] = "decode" /\ Len(sockReads[Api]) = 2

ScopeLeft == cpc \in { "returned", "panicked" }

\* worker w was ended by an I/O error of its stream: its handshake returned the error of
\* a failed socket write or read, or the write inside publish_bytes failed
StreamFaultIn(w) ==
    /\ pc[w] = "panicked"
    /\ \/ /\ hsResult[w] # NoResult
          /\ ~hsResult[w].ok
          /\ hsResult[w].err.kind # "InvalidData"
       \/ lastPublish[w].ret = "Panic"

\* the k-th batch of file f in batches of b lines, as the payload handed to publish_bytes
BatchText(f, k, b) == JoinLines(ChunkAt(f, 1 + (k - 1) * b, b))

\* the number of batches of a file of n lines
NumBatches(n, b) == (n + b - 1) \div b

\* C11: a stream fault inside one worker ends only that worker: every sibling still runs
\* to the end of its own file, and import_csv_to_ib does not fail because of it.
C11_FaultEndsOnlyItsWorker ==
    \A w \in Workers :
       ( /\ StreamFaultIn(w)
         /\ ScopeLeft
         /\ \A v \in Workers \ { w } : pc[v] = "done" )
       => cpc = "returned"

\* worker w's Client::new failed, or its handshake returned an error
ConnectOrHandshakeFailed(w) ==
    \/ pc[w] = "panicked" /\ hsResult[w] = NoResult
    \/ hsResult[w] # NoResult /\ ~hsResult[w].ok

\* one step of worker v that needs nothing from its peer
WorkerStep(v) ==
    WorkerClientNew(v) \/ HandshakeConnect(v) \/ WorkerPublish(v) \/ WorkerDone(v)

\* C12: a worker whose connect or handshake failed hands no batch to publish_bytes and
\* puts no Publish frame on its stream, and the failure surfaces when the scope is left;
\* meanwhile no other worker is held up, the scope is left only when all have ended, and
\* a worker that ended normally has published every batch of its own file.
C12_FailedHandshakePublishesNothing ==
    \A w \in Workers :
       /\ ConnectOrHandshakeFailed(w) =>
             /\ published[w] = << >>
             /\ lastPublish[w] = NoPublish
             /\ Len(sent[w]) <= Len(EncodeConnect(ConnectOf(options)))
             /\ sent[w] = Take(EncodeConnect(ConnectOf(options)), Len(sent[w]))
             /\ pc[w] \in { "hs_done", "panicked" }
             /\ ScopeLeft => cpc = "panicked"
             /\ \A v \in Workers \ { w } :
                   pc[v] \in { "new", "hs_connect", "loop" } => ENABLED WorkerStep(v)
       /\ ScopeLeft => pc[w] \in { "done", "panicked" }
       /\ pc[w] = "done" =>
             /\ hsResult[w].ok
             /\ Len(published[w]) = NumBatches(Len(file[w]), batch)

\* the first worker's handshake was rejected; the second published its two batches
C12_Witness ==
    /\ cpc = "panicked"
    /\ hsResult[1] # NoResult
    /\ ~hsResult[1].ok
    /\ pc[1] = "panicked"
    /\ pc[2] = "done"
    /\ Len(published[2]) = 2

\* the Publish frames of the batches k.. of file f, one after the other
RECURSIVE PublishFrames(_, _, _)
PublishFrames(f, k, b) ==
    IF k > NumBatches(Len(f), b) THEN << >>
    ELSE EncodePublish(Topic, 0, BatchText(f, k, b)).bytes \o PublishFrames(f, k + 1, b)

\* C13: from a worker whose handshake was accepted and that has gone through its whole
\* file without any call failing, the broker has observed, after the Connect frame,
\* exactly one AtMostOnce Publish frame per batch of the file, the k-th carrying the
\* k-th batch joined by newlines, in order.
C13_BrokerObservesEveryBatch ==
    \A w \in Workers :
       ( hsResult[w].ok /\ pc[w] = "done" )
       => sent[w] = EncodeConnect(ConnectOf(options)) \o PublishFrames(file[w], 1, batch)

\* the Connect frame the client writes
ConnectFrame == EncodeConnect(ConnectOf(options))

\* the last Len(ConnectFrame) bytes worker w's stream accepted are the Connect frame
ConnectWrittenInFull(w) ==
    /\ Len(sent[w]) >= Len(ConnectFrame)
    /\ Drop(sent[w], Len(sent[w]) - Len(ConnectFrame)) = ConnectFrame

\* Network::read is running on behalf of Client::handshake
HandshakeReading(w) ==
    caller[w] = "handshake" /\ pc[w] \in { "decode", "read_bytes", "hs_match" }

\* C14 as stated: whatever its outcome, a handshake that has returned has written the
\* Connect frame once and has called Network::read once, in that order.
C14_OneConnectThenOneRead ==
    \A w \in Workers :
       pc[w] = "hs_done" =>
          /\ hsNet[w] = << "connect", "read" >>
          /\ ConnectWrittenInFull(w)

\* C14 as amended: a handshake calls Network::connect once; if the write of the Connect
\* frame fails it returns that error without reading, otherwise it calls Network::read
\* once; no byte is read from the stream before the whole Connect frame has been
\* written, and no second read follows.
C14_ReadOnlyAfterWholeConnect ==
    \A w \in Workers :
       /\ hsNet[w] \in { << >>, << "connect" >>, << "connect", "read" >> }
       /\ HandshakeReading(w) =>
             /\ hsNet[w] = << "connect", "read" >>
             /\ ConnectWrittenInFull(w)
       /\ pc[w] = "hs_done" =>
             IF readResult[w] = NoResult
             THEN /\ hsNet[w] = << "connect" >>
                  /\ hsResult[w] \in { IoErr(k, << "os" >>) : k \in SockFaultKinds }
                  /\ sockReads[w] = << >>
                  /\ readsInCall[w] = 0
             ELSE /\ hsNet[w] = << "connect", "read" >>
                  /\ ConnectWrittenInFull(w)
                  /\ hsResult[w] = HandshakeMatch(readResult[w])

\* the write of the Connect frame failed after all but its last byte: nothing was read
C14_Witness ==
    /\ pc[Api] = "hs_done"
    /\ hsNet[Api] = << "connect" >>
    /\ Len(sent[Api]) = Len(ConnectFrame) - 1
    /\ inbound[Api] # << >>

\* what tells one error from another without reading its message: variant and io kind
ErrClass(r) == << r.err.variant, r.err.kind >>

\* the error of a handshake whose ConnAck carried a refusal
RejectedError ==
    HandshakeMatch(OkPacket([type |-> "ConnAck", session_present |-> FALSE,
                             code |-> "NotAuthorized"]))

\* the error Network::read returns for a codec error
MalformedError == IoErr("InvalidData", << "codec", "MalformedPacket" >>)

\* C15: if the frame read during Client::handshake is not a ConnAck, handshake fails
\* with an error of its own kind (UnexpectedFrame), which differs from the error of a
\* refused ConnAck and from the error of malformed bytes, and the session is Errored.
C15_UnexpectedFrameIsDistinct ==
    \A w \in Workers :
       ( HandshakeReadFrame(w) /\ readResult[w].packet.type # "ConnAck" )
       => /\ ~hsResult[w].ok
          /\ Session(w) = "Errored"
          /\ ErrClass(hsResult[w]) # ErrClass(RejectedError)
          /\ ErrClass(hsResult[w]) # ErrClass(MalformedError)

\* Network::read has returned an error of the codec
CodecError(w) ==
    /\ ReadReturned(w)
    /\ ~readResult[w].ok
    /\ readResult[w].err.text[1] = "codec"

\* the codec's errors other than InsufficientBytes that the peer's bytes can cause
MalformedKinds ==
    { "MalformedRemainingLength", "PayloadSizeLimitExceeded", "InvalidPacketType",
      "PayloadRequired", "MalformedPacket", "InvalidConnectReturnCode" }

\* C16: when the codec reports malformed bytes, Network::read returns the error
\* (io kind InvalidData) from that very decode attempt: the call is over, with no
\* socket read and no decode attempt after it.
C16_MalformedFailsAtOnce ==
    \A w \in Workers :
       CodecError(w) =>
          /\ readResult[w].err.variant = "Io"
          /\ readResult[w].err.kind = "InvalidData"
          /\ readResult[w].err.text[2] \in MalformedKinds
          /\ pc[w] \notin { "decode", "read_bytes" }
          /\ sockReads[w] = << >>

\* a remaining length of five bytes, found malformed after socket reads
C16_Witness ==
    /\ CodecError(Api)
    /\ readResult[Api].err.text[2] = "MalformedRemainingLength"
    /\ readsInCall[Api] > 1

\* Network::read returns to its caller in this step
ReadReturns(w) == readResult[w] = NoResult /\ readResult'[w] # NoResult

\* the complete frame at the front of the read buffer, if the codec's check finds one
FrontFrame(w) ==
    LET h == Check(readBuf[w], MAX_PACKET_SIZE)
    IN IF h.st = "ok"
       THEN [found |-> TRUE, len |-> h.fixed_header_len + h.remaining_len,
             parsed |-> ParseFrame(h, Take(readBuf[w], h.fixed_header_len + h.remaining_len))]
       ELSE [found |-> FALSE, len |-> 0,
             parsed |-> [ok |-> FALSE, e |-> "", packet |-> NoPacket]]

Occurrences(f, s) ==
    Cardinality({ i \in 1..(Len(s) - Len(f) + 1) :
                    s[i] = f[1] /\ SubSeq(s, i, i + Len(f) - 1) = f })

\* C18: a worker makes one client and handshakes once: it calls Client::new at most
\* once and Client::handshake at most once, and however many batches it publishes, its
\* stream holds the Connect frame at most once, at the very front.
C18_OneClientOneHandshake ==
    \A w \in Workers :
       /\ attempts[w].new <= 1
       /\ attempts[w].handshake <= attempts[w].new
       /\ Occurrences(ConnectFrame, sent[w]) <= attempts[w].handshake
       /\ published[w] # << >> =>
             /\ attempts[w].handshake = 1
             /\ Take(sent[w], Len(ConnectFrame)) = ConnectFrame

\* a worker that ended after two publishes on the one client it made
C18_Witness ==
    \E w \in Workers :
       /\ pc[w] = "done"
       /\ Len(published[w]) = 2
       /\ attempts[w] = [new |-> 1, handshake |-> 1]
       /\ Occurrences(ConnectFrame, sent[w]) = 1

\* C19: nothing is attempted twice. A worker calls Client::new once and
\* Client::handshake once even when they fail; the payloads handed to publish_bytes are
\* the batches of the file in order, each once, and a publish that panicked is the last;
\* so no batch's Publish frame is on the stream more than once.
C19_NothingIsRetried ==
    \A w \in Workers :
       /\ attempts[w].new <= 1
       /\ attempts[w].handshake <= 1
       /\ pc[w] = "panicked" => attempts[w].new = 1
       /\ ( hsResult[w] # NoResult /\ ~hsResult[w].ok ) => attempts[w].handshake = 1
       /\ Len(published[w]) <= NumBatches(Len(file[w]), batch)
       /\ \A k \in 1..Len(published[w]) :
             /\ published[w][k] = BatchText(file[w], k, batch)
             /\ Occurrences(EncodePublish(Topic, 0, published[w][k]).bytes, sent[w]) <= 1
       /\ lastPublish[w].ret = "Panic" =>
             /\ pc[w] = "panicked"
             /\ lastPublish[w].payload = published[w][Len(published[w])]

\* one worker's first publish failed with a batch left, the other's Client::new failed
C19_Witness ==
    \E w, v \in Workers :
       /\ lastPublish[w].ret = "Panic"
       /\ Len(published[w]) = 1
       /\ Len(file[w]) = 2
       /\ batch = 1
       /\ pc[v] = "panicked"
       /\ hsResult[v] = NoResult
       /\ cpc = "panicked"

\* s is made of the Publish frames of the batches k.. of file f, each whole or cut
\* short by at most shortBy bytes, the last possibly absent (its write failed)
RECURSIVE IsPublishPieces(_, _, _, _)
IsPublishPieces(s, f, k, n) ==
    IF k > n THEN s = << >>
    ELSE LET frame == EncodePublish(Topic, 0, BatchText(f, k, batch)).bytes
         IN \/ k = n /\ s = << >>
            \/ \E m \in (Len(frame) - shortBy)..Len(frame) :
                  /\ 1 <= m
                  /\ m <= Len(s)
                  /\ Take(s, m) = Take(frame, m)
                  /\ IsPublishPieces(Drop(s, m), f, k + 1, n)

\* C20: under every interleaving of the workers, the stream of each worker holds its own
\* Connect frame (or the part of it that was written) followed by bytes of the Publish
\* frames of its own batches, in order, and no byte of another worker's records.
C20_StreamsCarryOnlyOwnFrames ==
    \A w \in Workers :
       /\ Take(sent[w], Min(Len(sent[w]), Len(ConnectFrame)))
             = Take(ConnectFrame, Min(Len(sent[w]), Len(ConnectFrame)))
       /\ IsPublishPieces(Drop(sent[w], Min(Len(sent[w]), Len(ConnectFrame))),
                          file[w], 1, Len(published[w]))
       /\ LET foreign == UNION { { file[v][j][1] : j \in 1..Len(file[v]) } :
                                  v \in Workers \ { w } }
          IN \A i \in 1..Len(sent[w]) : sent[w][i] \notin foreign

\* both workers are in their publish loops, each with one batch out and one to go
C20_Witness ==
    /\ \A w \in Workers : pc[w] = "loop" /\ Len(published[w]) = 1 /\ Len(file[w]) = 2
    /\ batch = 1
    /\ sent[1] # sent[2]

(***************************************************************************)
(* Properties of scope exit, publish_bytes, the options and Network::write.*)
(***************************************************************************)
\* C21: import_csv_to_ib leaves thread::scope only after every spawned worker thread
\* has finished: when it has returned (or the scope has panicked) no worker is still
\* connecting, handshaking or publishing, and it returns Ok only if all ended normally.
C21_ReturnsAfterAllWorkers ==
    /\ ScopeLeft => \A w \in Workers : pc[w] \in { "done", "panicked" }
    /\ cpc = "returned" =>
          \A w \in Workers : pc[w] = "done" /\ nextLine[w] > Len(file[w])

\* the importer returned after both workers had published
C21_Witness ==
    /\ cpc = "returned"
    /\ \A w \in Workers : published[w] # << >>

\* C22: the step in which Client::publish_bytes runs is also the step in which it
\* returns (or panics): it makes no socket read, consumes nothing the peer sent, and
\* leaves the read buffer as it was.
C22_PublishDoesNotRead ==
    [][ \A w \in Workers :
           CallPublish(w) =>
              /\ pc'[w] \in { "idle", "panicked" }
              /\ readBuf' = readBuf
              /\ inbound' = inbound
              /\ received' = received
              /\ sockReads' = sockReads
              /\ decodes' = decodes ]_vars

\* a publish returned Ok while bytes of the peer were waiting, read and unread
C22_Witness ==
    /\ lastPublish[Api].ret = "Ok"
    /\ readBuf[Api] # << >>
    /\ inbound[Api] # << >>

\* C28: once the client exists its options never change, whatever handshakes and
\* publishes are made on it and however they end.
C28_OptionsNeverChange ==
    [][ options' = options ]_vars

\* a failed handshake and a successful publish have been made, the options are as built
C28_Witness ==
    /\ hsResult[Api] # NoResult
    /\ ~hsResult[Api].ok
    /\ lastPublish[Api].ret = "Ok"
    /\ attempts[Api].handshake > 0
    /\ options = ImportOptions("ip")

\* C29: Network::write with an empty buffer is a no-op: it returns Ok without calling
\* socket.write and leaves the stream and the read buffer unchanged.
C29_EmptyWriteIsNoOp ==
    [][ \A w \in Workers :
           ( CallWrite(w) /\ lastWrite'[w].offered = << >> ) =>
              /\ lastWrite'[w].ret = "Ok"
              /\ ~lastWrite'[w].wrote
              /\ lastWrite'[w].accepted = 0
              /\ sent' = sent
              /\ readBuf' = readBuf
              /\ inbound' = inbound ]_vars

\* an empty write returned Ok on a stream that already carries bytes
C29_Witness ==
    /\ lastWrite[Api].ret = "Ok"
    /\ lastWrite[Api].offered = << >>
    /\ sent[Api] # << >>

\* what a broker reads from the bytes of one AtMostOnce Publish frame
\* (fixed header, one-byte remaining length, topic, payload)
DecodePublish(f) ==
    IF Len(f) < 4 \/ f[1] # 48 \/ f[2] # Len(f) - 2 \/ f[3] * 256 + f[4] > Len(f) - 4
    THEN [ok |-> FALSE, topic |-> << >>, payload |-> << >>]
    ELSE [ok |-> TRUE,
          topic |-> SubSeq(f, 5, 4 + f[3] * 256 + f[4]),
          payload |-> Drop(f, 4 + f[3] * 256 + f[4])]

C23_NoClientWithInvalidId ==
    \A w \in Workers :
       newResult[w] # "None" => ~InvalidClientId(options.client_id)

\* C24: in every options value that was constructed (by MqttOptions::new, set_keep_alive
\* or TryFrom<Url>, with or without keep_alive_secs) the keep-alive interval is at least
\* five seconds.
C24_KeepAliveAtLeastFive ==
    options # NoOptions => AsSecs(options.keep_alive) >= 5

\* set_keep_alive accepted the shortest duration it admits and the options hold it
C24_Witness ==
    /\ optCall.op = "set_keep_alive"
    /\ optCall.ret = "Ok"
    /\ optCall.d = 5000
    /\ options # NoOptions
    /\ options.keep_alive = 5000

\* the query keys the specification lists as recognized (of those the model's URLs use)
RecognizedKeys == RemovedKeys \cup LookedUpKeys

\* the value v is valid for the recognized key k (a keep-alive is at least 5 seconds)
ValidValue(k, v) ==
    CASE k = "client_id" -> TRUE
      [] k = "clean_session" -> ParseBool(v).ok
      [] k = "keep_alive_secs" -> ParseUnsigned(v).ok /\ ParseUnsigned(v).n >= 5
      [] OTHER -> ParseUnsigned(v).ok

\* the options carry the values the query of url gives
CarriesValues(o, url) ==
    LET q == url.query
        given(k) == k \in DOMAIN q
    IN /\ given("client_id") => o.client_id = q["client_id"]
       /\ given("keep_alive_secs")
             => o.keep_alive = ParseUnsigned(q["keep_alive_secs"]).n * 1000
       /\ given("clean_session") => o.clean_session = ParseBool(q["clean_session"]).b
       /\ given("max_incoming_packet_size_bytes")
             => o.max_incoming_packet_size
                   = ParseUnsigned(q["max_incoming_packet_size_bytes"]).n
       /\ given("conn_timeout_secs")
             => o.conn_timeout = ParseUnsigned(q["conn_timeout_secs"]).n

\* C25: a URL of a supported scheme whose query has only recognized keys with valid
\* values yields options that carry those values, and OptionError::Unknown is returned
\* only when the query has a key that is not recognized.
C25_RecognizedOptionsAccepted ==
    optCall.op = "try_from" =>
       LET q == optCall.url.query
       IN /\ ( /\ optCall.url.scheme \in { "mqtts", "ssl", "mqtt", "tcp" }
               /\ \A k \in DOMAIN q : k \in RecognizedKeys /\ ValidValue(k, q[k]) )
             => ( optCall.ret = "Ok" /\ CarriesValues(options, optCall.url) )
          /\ optCall.ret = "Unknown" => \E k \in DOMAIN q : k \notin RecognizedKeys

\* C26: Client::new ends with a client or with an error value, a timeout or a refusal,
\* for every host in the options, and never panics; after an error no client exists and
\* the session is Disconnected.
C26_ConnectFailureIsAnErrorValue ==
    \A w \in Workers :
       /\ newResult[w] \in { "None", "Ok", "ErrTimedOut", "ErrConnectionRefused" }
       /\ newResult[w] \in { "ErrTimedOut", "ErrConnectionRefused" }
             => Session(w) = "Disconnected"

\* Connect::read on a whole Connect frame with a one-byte remaining length: the
\* keep-alive is the big-endian u16 after the protocol name, level and connect flags
KeepAliveField(frame) == frame[11] * 256 + frame[12]

\* C27: the Connect frame the handshake wrote is the encoding of the stored options,
\* and its keep-alive field equals the options' keep-alive in whole seconds, whatever
\* keep-alive the options hold.
C27_ConnectCarriesKeepAlive ==
    \A w \in Workers :
       ( pc[w] \in { "decode", "read_bytes", "hs_match", "hs_done" }
         /\ Len(sent[w]) >= 12 /\ sent[w][2] = Len(sent[w]) - 2 )
       => /\ sent[w] = EncodeConnect(ConnectOf(options))
          /\ KeepAliveField(sent[w]) = AsSecs(options.keep_alive)


(***************************************************************************)
(* Properties of read_bytes, of the order of the frames and of timeouts.   *)
(***************************************************************************)
\* C38: read_bytes(required) with required >= 1 that returns Ok(total) has appended
\* exactly total bytes to the read buffer, with required <= total <= 2 * required - 1,
\* since every socket read asks for up to required bytes; when it returns an error,
\* the bytes received before stay in the buffer.
C38_ReadBytesTotalBounds ==
    [][\A w \in Workers :
          /\ SockReadData(w)
                => /\ required[w] >= 1
                   /\ sockReads'[w][Len(sockReads'[w])].req = required[w]
                   /\ total_read'[w] <= 2 * required[w] - 1
                   /\ (pc'[w] # "read_bytes") = (total_read'[w] >= required[w])
                   /\ Len(readBuf'[w]) = Len(readBuf[w]) + (total_read'[w] - total_read[w])
                   /\ Drop(readBuf'[w], Len(readBuf'[w]) - total_read'[w])
                         = Drop(received'[w], Len(received'[w]) - total_read'[w])
          /\ (SockReadEof(w) \/ SockReadFault(w))
                => /\ ~readResult'[w].ok
                   /\ readBuf'[w] = readBuf[w]
                   /\ Drop(readBuf[w], Len(readBuf[w]) - total_read[w])
                         = Drop(received[w], Len(received[w]) - total_read[w])]_vars

\* read_bytes has returned Ok(total) with total at its upper limit, above required
C38_Witness ==
    \E w \in Workers :
       /\ pc[w] = "decode"
       /\ required[w] >= 2
       /\ total_read[w] = 2 * required[w] - 1
       /\ Len(sockReads[w]) >= 2


\* C35: a worker writes a Publish frame only after its own handshake has returned an
\* accepted ConnAck: the first frame on each worker's stream is the Connect frame, and
\* every Publish frame is written after the ConnAck was read.
C35_PublishOnlyAfterAcceptedConnAck ==
    \A w \in Workers :
       /\ sent[w] = Take(ConnectFrame, Min(Len(sent[w]), Len(ConnectFrame)))
                       \o Drop(sent[w], Min(Len(sent[w]), Len(ConnectFrame)))
       /\ ( lastPublish[w] # NoPublish \/ Len(sent[w]) > Len(ConnectFrame) )
             => /\ hsResult[w].ok
                /\ hsResult[w].packet.type = "ConnAck"
                /\ hsResult[w].packet.code = "Success"
                /\ decodes[w] = << hsResult[w].packet >>
                /\ hsNet[w] = << "connect", "read" >>

\* a worker has written Publish frames after its Connect frame
C35_Witness ==
    \E w \in Workers :
       /\ Len(published[w]) = 2
       /\ Len(sent[w]) > Len(ConnectFrame)
       /\ hsResult[w].ok


\* the peer of worker w has sent all it will send and keeps the connection open
SilentPeer(w) == inbound[w] = << >> /\ ~peerCloses[w]

\* C31: after connect no read has a timeout. While the peer neither sends a byte nor
\* closes, a read stays blocked: no data, end of stream or timeout ends it, only a
\* failure of the socket itself; so a handshake that was called returns, or else waits
\* in a read on a silent peer, and termination needs a peer that answers or closes.
C31_TerminationNeedsAnAnsweringPeer ==
    /\ [][\A w \in Workers :
             ( pc[w] = "read_bytes" /\ SilentPeer(w) )
             => /\ ~ENABLED SockReadData(w)
                /\ ~ENABLED SockReadEof(w)
                /\ \/ /\ pc'[w] = "read_bytes"
                      /\ readResult'[w] = readResult[w]
                      /\ hsResult'[w] = hsResult[w]
                   \/ /\ SockReadFault(w)
                      /\ readResult'[w].err.kind \notin { "TimedOut", "WouldBlock" }]_vars
    /\ \A w \in Workers :
          pc[w] = "hs_connect"
             ~> ( pc[w] = "hs_done" \/ ( pc[w] = "read_bytes" /\ SilentPeer(w) ) )

\* Client::handshake has written its Connect frame and waits in read_bytes for a peer
\* that has sent nothing and does not close
C31_Witness ==
    \E w \in Workers :
       /\ pc[w] = "read_bytes"
       /\ caller[w] = "handshake"
       /\ SilentPeer(w)
       /\ received[w] = << >>
       /\ sent[w] = ConnectFrame
       /\ hsResult[w] = NoResult


\* C36: the largest incoming frame the transport of a client accepts is the maximum
\* incoming packet size its options hold (10 KiB by default): Network::read rejects a
\* frame whose remaining length (its second byte, for the frames read here) is above
\* the configured size.
C36_TransportEnforcesOptionsLimit ==
    \A w \in Workers :
       ( newResult[w] = "Ok" /\ readResult[w].ok )
       => received[w][2] <= options.max_incoming_packet_size


(***************************************************************************)
(* model.rs: basename and extract_db_tab. Strings are tuples of character  *)
(* codes; the texts of the model are ASCII.                                *)
(***************************************************************************)
\* str::rsplit(sep): the pieces between the separators, the last piece first; there is
\* always at least one piece
RECURSIVE RSplit(_, _)
RSplit(str, sep) ==
    IF \A i \in 1..Len(str) : str[i] # sep THEN << str >>
    ELSE LET last == CHOOSE i \in 1..Len(str) :
                        str[i] = sep /\ \A j \in (i + 1)..Len(str) : str[j] # sep
         IN << Drop(str, last) >> \o RSplit(Take(str, last - 1), sep)

\* Basename with the first piece of the path taken instead of the last
BasenameFirstPiece(path, sep) == RSplit(path, sep)[Len(RSplit(path, sep))]

\* basename, lines 42-48: the first piece rsplit yields, the path itself if it yields none
Basename(path, sep) ==
    LET pieces == RSplit(path, sep)
    IN IF pieces # << >> THEN pieces[1] ELSE path

\* str::to_lowercase on ASCII text
ToLowercase(str) == [i \in 1..Len(str) |-> IF str[i] \in 65..90 THEN str[i] + 32 ELSE str[i]]

\* str::find(pattern): the byte offset (from 0) of the first occurrence, -1 for None
Find(str, pat) ==
    LET at == { i \in 0..(Len(str) - Len(pat)) : SubSeq(str, i + 1, i + Len(pat)) = pat }
    IN IF at = { } THEN 0 - 1 ELSE CHOOSE i \in at : \A j \in at : i <= j

\* str::trim: white space (space, tab, line feed, carriage return) removed at both ends
IsSpace(c) == c \in { 32, 9, 10, 13 }
RECURSIVE TrimStart(_)
TrimStart(str) ==
    IF str # << >> /\ IsSpace(str[1]) THEN TrimStart(Tail(str)) ELSE str
RECURSIVE TrimEnd(_)
TrimEnd(str) ==
    IF str # << >> /\ IsSpace(str[Len(str)]) THEN TrimEnd(Take(str, Len(str) - 1)) ELSE str
Trim(str) == TrimEnd(TrimStart(str))

\* str::split(sep): the pieces between the separators, in order
RECURSIVE Split(_, _)
Split(str, sep) ==
    IF Find(str, << sep >>) < 0 THEN << str >>
    ELSE << Take(str, Find(str, << sep >>)) >>
         \o Split(Drop(str, Find(str, << sep >>) + 1), sep)

\* the text "create table"
CreateTable == << 99, 114, 101, 97, 116, 101, 32, 116, 97, 98, 108, 101 >>

\* extract_db_tab, lines 50-65: Some((db, table)), None, or the panic of the unwrap at
\* line 53 when no '(' follows the statement
ExtractDbTab(str) ==
    LET idx == Find(ToLowercase(str), CreateTable)
        st == idx + Len(CreateTable)
        sp == Find(Drop(str, st), << 40 >>)
        t == Trim(SubSeq(str, st + 1, st + sp))
        ss == Split(t, 46)
    IN IF idx < 0 THEN [ret |-> "None", db |-> << >>, tab |-> << >>]
       ELSE IF sp < 0 THEN [ret |-> "Panic", db |-> << >>, tab |-> << >>]
       ELSE IF Len(ss) = 2 THEN [ret |-> "Some", db |-> Trim(ss[1]), tab |-> Trim(ss[2])]
       ELSE [ret |-> "None", db |-> << >>, tab |-> << >>]

(***************************************************************************)
(* SpecHelpers: one call of basename or of extract_db_tab.                 *)
(***************************************************************************)
MaxPathLen == 4

\* the paths and separators given to basename: '/', 'a' and '_' in the paths, '/' or '_'
\* as the separator
RECURSIVE PathsOfLen(_)
PathsOfLen(n) ==
    IF n = 0 THEN { << >> }
    ELSE { Append(p, c) : p \in PathsOfLen(n - 1), c \in { 47, 97, 95 } }
Paths == UNION { PathsOfLen(n) : n \in 0..MaxPathLen }
BasenameCalls ==
    { [fn |-> "basename", path |-> p, sep |-> c] : p \in Paths, c \in { 47, 95 } }

\* the text has a '('
HasParen(str) == \E i \in 1..Len(str) : str[i] = 40

\* the texts given to extract_db_tab: what precedes the statement ("", "x\n"), the
\* key words in either case, the names (" a.b", " a . b ", " ab", " a.b.c") with the
\* database and table they name, and what follows ("", "\n", "(", " (x)")
StatementNames ==
    { [text |-> << 32, 97, 46, 98 >>, named |-> TRUE, db |-> << 97 >>, tab |-> << 98 >>],
      [text |-> << 32, 97, 32, 46, 32, 98, 32 >>, named |-> TRUE, db |-> << 97 >>,
       tab |-> << 98 >>],
      [text |-> << 32, 97, 98 >>, named |-> FALSE, db |-> << >>, tab |-> << >>],
      [text |-> << 32, 97, 46, 98, 46, 99 >>, named |-> FALSE, db |-> << >>, tab |-> << >>] }
ExtractCalls ==
    { [fn |-> "extract_db_tab", text |-> pre \o kw \o n.text \o post,
       named |-> n.named, db |-> n.db, tab |-> n.tab, paren |-> HasParen(post)] :
        pre \in { << >>, << 120, 10 >> },
        kw \in { CreateTable, << 67, 82, 69, 65, 84, 69, 32, 84, 65, 66, 76, 69 >> },
        n \in StatementNames,
        post \in { << >>, << 10 >>, << 40 >>, << 32, 40, 120, 41 >> } }
    \cup { [fn |-> "extract_db_tab", text |-> t, named |-> FALSE, db |-> << >>,
            tab |-> << >>, paren |-> HasParen(t)] : t \in { << >>, << 120, 40 >> } }

\* the MQTT client and the importer are not run
ClientIdle ==
    /\ pc = [w \in Workers |-> "unused"]
    /\ caller = [w \in Workers |-> "api"]
    /\ inbound = [w \in Workers |-> << >>]
    /\ peerCloses = [w \in Workers |-> TRUE]
    /\ readBuf = [w \in Workers |-> << >>]
    /\ required = [w \in Workers |-> 0]
    /\ total_read = [w \in Workers |-> 0]
    /\ sent = [w \in Workers |-> << >>]
    /\ readResult = [w \in Workers |-> NoResult]
    /\ hsResult = [w \in Workers |-> NoResult]
    /\ lastWrite = [w \in Workers |-> NoWrite]
    /\ lastPublish = [w \in Workers |-> NoPublish]
    /\ calls = [w \in Workers |-> 0]
    /\ received = [w \in Workers |-> << >>]
    /\ consumedOk = [w \in Workers |-> 0]
    /\ consumedErr = [w \in Workers |-> 0]
    /\ sockReads = [w \in Workers |-> << >>]
    /\ readsInCall = [w \in Workers |-> 0]
    /\ decodes = [w \in Workers |-> << >>]
    /\ file = [w \in Workers |-> << >>]
    /\ nextLine = [w \in Workers |-> 1]
    /\ published = [w \in Workers |-> << >>]
    /\ logged = [w \in Workers |-> 0]
    /\ cpc = "unused"
    /\ options = NoOptions
    /\ shortBy = MAX_PACKET_SIZE
    /\ batch = 1
    /\ attempts = [w \in Workers |-> [new |-> 0, handshake |-> 0]]
    /\ hsNet = [w \in Workers |-> << >>]
    /\ newResult = [w \in Workers |-> "None"]
    /\ optCall = NoOptCall

InitHelpers ==
    /\ ClientIdle
    /\ GenIdle
    /\ callIn \in BasenameCalls \cup ExtractCalls
    /\ callOut = NoCall

\* basename(path, sep) is called and returns
CallBasename ==
    /\ callIn.fn = "basename"
    /\ callOut = NoCall
    /\ callOut' = [fn |-> "basename", ret |-> Basename(callIn.path, callIn.sep)]
    /\ UNCHANGED << clientVars, genVars, callIn >>

\* extract_db_tab(text) is called and returns or panics
CallExtractDbTab ==
    /\ callIn.fn = "extract_db_tab"
    /\ callOut = NoCall
    /\ callOut' = [fn |-> "extract_db_tab"] @@ ExtractDbTab(callIn.text)
    /\ UNCHANGED << clientVars, genVars, callIn >>

NextHelpers == CallBasename \/ CallExtractDbTab

SpecHelpers == InitHelpers /\ [][NextHelpers]_vars

(***************************************************************************)
(* Properties of the helpers of model.rs.                                  *)
(***************************************************************************)
\* C34: basename(path, sep) returns the part of path after the last occurrence of sep,
\* and the whole path when sep does not occur in it.
C34_BasenameIsPartAfterLastSep ==
    callOut.fn = "basename" =>
       LET path == callIn.path
           at == { i \in 1..Len(path) : path[i] = callIn.sep }
       IN IF at = { } THEN callOut.ret = path
          ELSE \E i \in at :
                  /\ \A j \in at : j <= i
                  /\ callOut.ret = SubSeq(path, i + 1, Len(path))

\* basename has returned the non-empty part after the last of two separators
C34_Witness ==
    /\ callOut.fn = "basename"
    /\ Cardinality({ i \in 1..Len(callIn.path) : callIn.path[i] = callIn.sep }) = 2
    /\ callIn.path[1] # callIn.sep
    /\ callOut.ret # << >>
    /\ callOut.ret # callIn.path

\* C33: extract_db_tab applied to text that contains a 'create table <db>.<table>'
\* statement returns Some((db, table)) with both names trimmed, whether or not a '('
\* follows the table name, and it never panics.
C33_ExtractReturnsDbAndTable ==
    ( callOut.fn = "extract_db_tab" /\ callIn.named ) =>
       /\ callOut.ret # "Panic"
       /\ callOut.ret = "Some" /\ callOut.db = callIn.db /\ callOut.tab = callIn.tab


(***************************************************************************)
(* gen.rs: gen_data and Generator::run, for the csv format and the one     *)
(* model ("pstations") gen_data generates for.                             *)
(***************************************************************************)
\* const CT_OOO, line 95: the timestamps of one flush window
CT_OOO == 5

\* (0..interval_per_worker_sec).step_by(step_sec), line 97: the number of timestamps
NumSteps(interval, step) == (interval + step - 1) \div step

\* fastrand::shuffle(&mut ooo_buf), line 107: the orders it can leave the buffer in
\* (the model takes three of them: unchanged, reversed, and rotated by one)
ShuffleOutcomes(buf) ==
    { buf,
      [i \in 1..Len(buf) |-> buf[Len(buf) + 1 - i]],
      [i \in 1..Len(buf) |-> buf[(i % Len(buf)) + 1]] }

\* lines 110-113: what reaches the file when the lines are written in order, each
\* followed by the newline byte, the newline of line number skip (0: none) being lost
RECURSIVE Written(_, _)
Written(lines, skip) ==
    IF lines = << >> THEN << >>
    ELSE << lines[1] >> \o (IF skip = 1 THEN << >> ELSE << 0 >>)
         \o Written(Tail(lines), skip - 1)

\* the Mutex is taken by whoever finds it free, whatever the others hold
MutexFreeUnguarded(m) == TRUE

\* Mutex::lock, line 143: the lock is acquired only while no thread holds it
MutexFree(m) == m = 0

\* lines 145-147: entry(model).and_modify(|e| *e += n).or_insert(n)
Merged(e, n) == IF e = NoStat THEN n ELSE e + n

(***************************************************************************)
(* SpecGen: Generator::run with two workers.                               *)
(***************************************************************************)
MaxInterval == 6
MaxDropped == 1

\* the fields of the Generator: interval_per_worker_sec, step_sec, out_of_order, and the
\* number of records gen_csv_records returns for one timestamp
GenInputs ==
    [interval : 0..MaxInterval, step : 0..2, out_of_order : BOOLEAN, per_ts : { 1, 2 }]

InitGen ==
    /\ ClientIdle
    /\ HelperIdle
    /\ gen \in GenInputs
    /\ gcpc = "spawning"
    /\ gpc = [w \in Workers |-> "unspawned"]
    /\ tsp = [w \in Workers |-> 0]
    /\ generated = [w \in Workers |-> 0]
    /\ num_all_lines = [w \in Workers |-> 0]
    /\ ooo_buf = [w \in Workers |-> << >>]
    /\ ooo_ct = [w \in Workers |-> 0]
    /\ gen_file = [w \in Workers |-> << >>]
    /\ dropped = [w \in Workers |-> 0]
    /\ gen_stats = NoStat
    /\ mutex = 0
    /\ entry = [w \in Workers |-> NoStat]
    /\ printed = NoStat

\* Generator::run, lines 180-189: the threads are spawned in the order of their index
GenSpawn(w) ==
    /\ gcpc = "spawning"
    /\ gpc[w] = "unspawned"
    /\ \A v \in Workers : v < w => gpc[v] # "unspawned"
    /\ gpc' = [gpc EXCEPT ![w] = "open"]
    /\ gcpc' = IF \A v \in Workers : v # w => gpc[v] # "unspawned" THEN "joining" ELSE gcpc
    /\ UNCHANGED << clientVars, helperVars, gen, tsp, generated, num_all_lines, ooo_buf,
                    ooo_ct, gen_file, dropped, gen_stats, mutex, entry, printed >>

\* gen_data, lines 85-97: the output file is created (an error is returned and the
\* closure at lines 185-187 panics), the locals are set, and the loop is built, where
\* step_by panics for a step of 0
GenOpen(w) ==
    /\ gpc[w] = "open"
    /\ \E opened \in BOOLEAN :
          gpc' = [gpc EXCEPT ![w] = IF opened /\ gen.step # 0 THEN "loop" ELSE "panicked"]
    /\ num_all_lines' = [num_all_lines EXCEPT ![w] = 0]
    /\ ooo_buf' = [ooo_buf EXCEPT ![w] = << >>]
    /\ ooo_ct' = [ooo_ct EXCEPT ![w] = CT_OOO - 1]
    /\ UNCHANGED << clientVars, helperVars, gen, gcpc, tsp, generated, gen_file, dropped,
                    gen_stats, mutex, entry, printed >>

\* gen_data, lines 97-119: one timestamp of the loop. The records are generated, held
\* back and counted; on the last timestamp of a window they are shuffled if out_of_order
\* is set and written: write_all(..).unwrap() panics on an error, while the result of
\* buf.write(&[b'\n']) at line 112 is discarded, so that a newline whose write failed
\* is missing and the loop goes on.
GenStep(w) ==
    /\ gpc[w] = "loop"
    /\ tsp[w] < NumSteps(gen.interval, gen.step)
    /\ LET lines == [i \in 1..gen.per_ts |-> generated[w] + i]
           held == ooo_buf[w] \o lines
       IN /\ generated' = [generated EXCEPT ![w] = @ + gen.per_ts]
          /\ num_all_lines' = [num_all_lines EXCEPT ![w] = @ + Len(lines)]
          /\ tsp' = [tsp EXCEPT ![w] = @ + 1]
          /\ IF ooo_ct[w] = 0
             THEN \/ \E order \in (IF gen.out_of_order THEN ShuffleOutcomes(held)
                                   ELSE { held }) :
                     \E skip \in 0..(IF dropped[w] < MaxDropped THEN Len(held) ELSE 0) :
                        /\ gen_file' = [gen_file EXCEPT ![w] = @ \o Written(order, skip)]
                        /\ dropped' = [dropped EXCEPT ![w] = IF skip = 0 THEN @ ELSE @ + 1]
                        /\ ooo_buf' = [ooo_buf EXCEPT ![w] = << >>]
                        /\ ooo_ct' = [ooo_ct EXCEPT ![w] = CT_OOO - 1]
                        /\ UNCHANGED gpc
                  \/ /\ gpc' = [gpc EXCEPT ![w] = "panicked"]
                     /\ ooo_buf' = [ooo_buf EXCEPT ![w] = held]
                     /\ UNCHANGED << gen_file, dropped, ooo_ct >>
             ELSE /\ ooo_buf' = [ooo_buf EXCEPT ![w] = held]
                  /\ ooo_ct' = [ooo_ct EXCEPT ![w] = @ - 1]
                  /\ UNCHANGED << gen_file, dropped, gpc >>
    /\ UNCHANGED << clientVars, helperVars, gen, gcpc, gen_stats, mutex, entry, printed >>

\* gen_data, lines 133-140: after the loop the lines still held back are written as
\* they are, every write and the final flush unwrapped
GenFinish(w) ==
    /\ gpc[w] = "loop"
    /\ tsp[w] = NumSteps(gen.interval, gen.step)
    /\ \/ /\ gen_file' = [gen_file EXCEPT ![w] = @ \o Written(ooo_buf[w], 0)]
          /\ ooo_buf' = [ooo_buf EXCEPT ![w] = << >>]
          /\ gpc' = [gpc EXCEPT ![w] = "lock"]
       \/ /\ gpc' = [gpc EXCEPT ![w] = "panicked"]
          /\ UNCHANGED << gen_file, ooo_buf >>
    /\ UNCHANGED << clientVars, helperVars, gen, gcpc, tsp, generated, num_all_lines,
                    ooo_ct, dropped, gen_stats, mutex, entry, printed >>

\* gen_data, lines 142-145: gen_stats.lock().unwrap().entry(model_name)
GenLock(w) ==
    /\ gpc[w] = "lock"
    /\ MutexFree(mutex)
    /\ mutex' = w
    /\ entry' = [entry EXCEPT ![w] = gen_stats]
    /\ gpc' = [gpc EXCEPT ![w] = "merge"]
    /\ UNCHANGED << clientVars, helperVars, gen, gcpc, tsp, generated, num_all_lines,
                    ooo_buf, ooo_ct, gen_file, dropped, gen_stats, printed >>

\* gen_data, lines 146-152: the entry is updated or inserted, the guard is dropped and
\* gen_data returns Ok(())
GenMerge(w) ==
    /\ gpc[w] = "merge"
    /\ gen_stats' = Merged(entry[w], num_all_lines[w])
    /\ mutex' = 0
    /\ gpc' = [gpc EXCEPT ![w] = "done"]
    /\ UNCHANGED << clientVars, helperVars, gen, gcpc, tsp, generated, num_all_lines,
                    ooo_buf, ooo_ct, gen_file, dropped, entry, printed >>

\* Generator::run, lines 190-198: thread::scope returns when every thread has ended
\* and panics if one of them panicked; otherwise the totals are printed
GenScopeExit ==
    /\ gcpc = "joining"
    /\ \A w \in Workers : gpc[w] \in { "done", "panicked" }
    /\ IF \E w \in Workers : gpc[w] = "panicked"
       THEN gcpc' = "panicked" /\ UNCHANGED printed
       ELSE gcpc' = "returned" /\ printed' = gen_stats
    /\ UNCHANGED << clientVars, helperVars, gen, gpc, tsp, generated, num_all_lines,
                    ooo_buf, ooo_ct, gen_file, dropped, gen_stats, mutex, entry >>

NextGen ==
    \/ \E w \in Workers : GenSpawn(w)
    \/ \E w \in Workers : GenOpen(w)
    \/ \E w \in Workers : GenStep(w)
    \/ \E w \in Workers : GenFinish(w)
    \/ \E w \in Workers : GenLock(w)
    \/ \E w \in Workers : GenMerge(w)
    \/ GenScopeExit

SpecGen == InitGen /\ [][NextGen]_vars

(***************************************************************************)
(* Properties of the generator.                                            *)
(***************************************************************************)
\* the sum of f over the workers
RECURSIVE SumOver(_, _)
SumOver(f, S) ==
    IF S = { } THEN 0
    ELSE LET w == CHOOSE x \in S : TRUE IN f[w] + SumOver(f, S \ { w })

\* C32: each worker counts its lines locally and takes the lock on the shared
\* statistics after its loop over the timestamps; when Generator::run prints the totals
\* after all workers have joined, the total of the model is the sum of the lines all
\* workers generated, under every interleaving.
C32_TotalIsSumOfWorkers ==
    /\ \A w \in Workers : mutex = w => gpc[w] = "merge"
    /\ gcpc = "returned"
          => /\ printed = SumOver(generated, Workers)
             /\ \A w \in Workers :
                   generated[w] = NumSteps(gen.interval, gen.step) * gen.per_ts

\* Generator::run has printed a total to which both workers contributed lines
C32_Witness ==
    /\ gcpc = "returned"
    /\ \A w \in Workers : generated[w] > 0
    /\ printed = 2 * generated[1]

\* the lines of a file: the pieces that end with a newline byte, and a last piece
\* without one if there is any
RECURSIVE LinesOf(_)
LinesOf(f) ==
    IF f = << >> THEN << >>
    ELSE IF \A i \in 1..Len(f) : f[i] # 0 THEN << f >>
    ELSE LET nl == CHOOSE i \in 1..Len(f) : f[i] = 0 /\ \A j \in 1..(i - 1) : f[j] # 0
         IN << Take(f, nl - 1) >> \o LinesOf(Drop(f, nl))

\* the flush window of line number k: the lines of CT_OOO consecutive timestamps
WindowOf(k) == ((k - 1) \div gen.per_ts) \div CT_OOO

\* the output file of worker w holds every line gen_data generated, once, as a line of
\* its own, and no line outside the flush window it was generated in
LinesWrittenOnce(w) ==
    LET ls == LinesOf(gen_file[w])
    IN /\ num_all_lines[w] = generated[w]
       /\ Len(ls) = num_all_lines[w]
       /\ \A k \in 1..generated[w] :
             Cardinality({ i \in 1..Len(ls) : ls[i] = << k >> }) = 1
       /\ \A i \in 1..Len(ls) : \A j \in (i + 1)..Len(ls) :
             WindowOf(ls[i][1]) <= WindowOf(ls[j][1])
       /\ ~gen.out_of_order => \A i \in 1..Len(ls) : ls[i] = << i >>

\* gen_data has written and flushed the whole file of worker w
FileComplete(w) == gpc[w] \in { "lock", "merge", "done" }

\* C37: every line generated for a worker is in the worker's file exactly once: the
\* file has num_all_lines lines whatever the number of timestamps, and with
\* out_of_order lines are permuted inside one flush window only.
C37_EveryLineWrittenOnce ==
    \A w \in Workers : FileComplete(w) => LinesWrittenOnce(w)

\* the same for the workers none of whose newline writes failed
LinesWrittenOnceUnlessDropped ==
    \A w \in Workers : ( FileComplete(w) /\ dropped[w] = 0 ) => LinesWrittenOnce(w)

====
